---- MODULE Spec2Model ----
(***************************************************************************)
(* Batch image-update pipeline of product-image-updater-server:            *)
(* imageUpdateHandler (create / upload / process), the DynamoDBService     *)
(* record store and the S3Service blob store it writes to, and the         *)
(* ShopifyService catalog calls it issues.                                 *)
(*                                                                         *)
(* Text is a sequence of tokens.  The tokens ",", "\"", " ", "\r" and "\n" *)
(* are the characters the code inspects one by one; any other token stands *)
(* for a run of ordinary characters.  A string field of a row or a record  *)
(* is therefore a sequence of tokens, and '' is the empty sequence.        *)
(***************************************************************************)
EXTENDS Integers, Sequences, FiniteSets, TLC

\* ------------------------------------------------------------------ bounds
\* handler invocations (create, upload, process) in one behaviour
MaxCalls == 5
\* process invocations running at the same time
MaxActive == 2
\* data rows of an upload body
MaxRows == 3
\* create requests in one behaviour of the create-only specification
MaxCreates == 2
\* successful handler invocations in one behaviour of the request-validation
\* specification
MaxApiCalls == 3

\* ------------------------------------------------------------ text helpers
Whitespace == {" ", "\r", "\n"}

RECURSIVE TrimStart(_)
\* String.prototype.trim, leading part
TrimStart(s) ==
  IF s # <<>> /\ Head(s) \in Whitespace THEN TrimStart(Tail(s)) ELSE s

RECURSIVE TrimEnd(_)
\* String.prototype.trim, trailing part
TrimEnd(s) ==
  IF s # <<>> /\ s[Len(s)] \in Whitespace
  THEN TrimEnd(SubSeq(s, 1, Len(s) - 1))
  ELSE s

Trim(s) == TrimEnd(TrimStart(s))

RECURSIVE SplitFrom(_, _, _, _)
\* String.prototype.split(sep) for a one-token separator
SplitFrom(s, sep, i, cur) ==
  IF i > Len(s) THEN <<cur>>
  ELSE IF s[i] = sep THEN <<cur>> \o SplitFrom(s, sep, i + 1, <<>>)
  ELSE SplitFrom(s, sep, i + 1, Append(cur, s[i]))

Split(s, sep) == SplitFrom(s, sep, 1, <<>>)

RECURSIVE Join(_, _)
\* Array.prototype.join(sep) on an array of strings
Join(parts, sep) ==
  IF parts = <<>> THEN <<>>
  ELSE IF Len(parts) = 1 THEN parts[1]
  ELSE parts[1] \o <<sep>> \o Join(Tail(parts), sep)

\* csvContent.split('\n').filter(line => line.trim().length > 0)
NonBlankLines(csvContent) ==
  SelectSeq(Split(csvContent, "\n"), LAMBDA line : Len(Trim(line)) > 0)

RECURSIVE ScanLine(_, _, _, _, _)
\* the loop of parseCSVLine: a quote toggles inQuotes, a comma outside
\* quotes ends the field, any other character is appended
ScanLine(line, i, current, inQuotes, result) ==
  IF i > Len(line) THEN Append(result, Trim(current))
  ELSE IF line[i] = "\"" THEN ScanLine(line, i + 1, current, ~inQuotes, result)
  ELSE IF line[i] = "," /\ ~inQuotes
       THEN ScanLine(line, i + 1, <<>>, inQuotes, Append(result, Trim(current)))
  ELSE ScanLine(line, i + 1, Append(current, line[i]), inQuotes, result)

parseCSVLine(line) == ScanLine(line, 1, <<>>, FALSE, <<>>)

\* values[k] || ''
ValueAt(values, k) == IF k <= Len(values) THEN values[k] ELSE <<>>

\* lines.slice(1).map(line => { ... }) of the process branch
RowOfLine(line) ==
  LET values == parseCSVLine(line)
  IN [product_id       |-> ValueAt(values, 1),
      product_handle   |-> ValueAt(values, 2),
      current_image_id |-> ValueAt(values, 3),
      collection_name  |-> ValueAt(values, 4),
      new_image_url    |-> ValueAt(values, 5)]

DecodeRows(lines) == [k \in 1..(Len(lines) - 1) |-> RowOfLine(lines[k + 1])]

csvHeaders ==
  <<<<"product_id">>, <<"product_handle">>, <<"current_image_id">>,
    <<"collection_name">>, <<"new_image_url">>>>

\* [row.product_id, ..., row.new_image_url].join(',')
LineOfRow(row) ==
  Join(<<row.product_id, row.product_handle, row.current_image_id,
         row.collection_name, row.new_image_url>>, ",")

\* [csvHeaders.join(','), ...csvData.map(...)].join('\n') of the create branch
EncodeCSV(csvData) ==
  Join(<<Join(csvHeaders, ",")>> \o [k \in 1..Len(csvData) |-> LineOfRow(csvData[k])],
       "\n")

\* ------------------------------------------------------------------ URLs
\* URLs the WHATWG parser accepts with protocol http: or https:
HttpUrls == {"https://example.com/a.jpg", "https://example.com/b.jpg"}
\* strings the parser rejects, or accepts with another protocol
OtherUrls == {"not-a-url", "ftp://example.com/c.jpg"}

\* isValidImageUrl on a one-token string
isValidImageUrl(url) == Len(url) = 1 /\ url[1] \in HttpUrls

\* --------------------------------------------------------------- catalog
\* products of the collection as getProductsFromCollection returns them
CatalogProducts ==
  <<[id |-> <<"p1">>, handle |-> <<"h1">>, images |-> <<<<"img1">>, <<"img9">>>>],
    [id |-> <<"p2">>, handle |-> <<"h2">>, images |-> <<<<"img2">>>>],
    [id |-> <<"p3">>, handle |-> <<"h3">>, images |-> <<>>]>>

\* collectionResponse.collection.title
CollectionTitle == <<"Coll">>

\* the variants of each product, in the order getProduct returns them
VariantsOf(productId) ==
  IF productId = <<"p1">> THEN <<<<"v1">>, <<"v2">>>>
  ELSE IF productId = <<"p2">> THEN <<<<"v3">>>>
  ELSE <<>>

VariantIds == {<<"v1">>, <<"v2">>, <<"v3">>}

\* image each variant points at before any run
InitialVariantImage ==
  [v \in VariantIds |-> IF v = <<"v3">> THEN <<"img2">> ELSE <<"img1">>]

\* ------------------------------------------------------------------ inputs
Row(pid, handle, cur, url) ==
  [product_id |-> pid, product_handle |-> handle, current_image_id |-> cur,
   collection_name |-> CollectionTitle, new_image_url |-> url]

UrlA == <<"https://example.com/a.jpg">>
UrlB == <<"https://example.com/b.jpg">>
BadUrl == <<"not-a-url">>

\* the three rows of the scenario CSV
ScenarioRows ==
  <<Row(<<"p1">>, <<"h1">>, <<"img1">>, UrlA),
    Row(<<"p1">>, <<"h1">>, <<>>, UrlB),
    Row(<<"p2">>, <<"h2">>, <<"img2">>, <<>>)>>

\* rows an operator may put into an upload
SampleRows ==
  {ScenarioRows[1], ScenarioRows[2], ScenarioRows[3],
   Row(<<"p1">>, <<"h1">>, <<"img1">>, UrlB),
   Row(<<"p1">>, <<"h1">>, <<"img9">>, UrlA),
   Row(<<"p2">>, <<"h2">>, <<"img2">>, UrlA),
   Row(<<"p1">>, <<"h1">>, <<>>, BadUrl),
   Row(<<"p2">>, <<"h2">>, <<>>, <<"ftp://example.com/c.jpg">>),
   Row(<<"p3">>, <<"h3">>, <<"img1">>, UrlA)}

RowLists(n) == UNION {[1..k -> SampleRows] : k \in 0..n}

\* bodies an encoder of this repository does not produce: quoted fields,
\* CRLF line ends, padded fields, a blank line, missing trailing fields
HandWrittenBodies ==
  {Join(csvHeaders, ",") \o
     <<"\r", "\n", "\"", "p1", "\"", ",", "h1", ",", " ", "img1", " ", ",",
       "\"", "Coll", ",", "x", "\"", ",", "https://example.com/a.jpg", "\r", "\n",
       "\n", "p1", ",", "h1">>,
   Join(csvHeaders, ",") \o
     <<"\n", "p2", ",", "h2", ",", "img2", ",", "Coll", ",", "\"", "not-a-url", "\"">>}

\* a body without a non-blank line
BlankBody == <<" ", "\n">>

\* a row of a collection whose title is 12"Vinyl, with a URL filled in
QuotedTitleRow ==
  [product_id |-> <<"p2">>, product_handle |-> <<"h2">>,
   current_image_id |-> <<"img2">>, collection_name |-> <<"12", "\"", "Vinyl">>,
   new_image_url |-> UrlA]

\* upload bodies of the single-run specification
RunBodies ==
  {EncodeCSV(rows) : rows \in RowLists(MaxRows) \cup {<<QuotedTitleRow>>}}
    \cup HandWrittenBodies \cup {BlankBody}

\* upload bodies of the lifecycle specification
UploadBodies ==
  {EncodeCSV(<<Row(<<"p2">>, <<"h2">>, <<"img2">>, UrlA)>>), BlankBody}

\* ------------------------------------------------------------------- state
VARIABLES
  operations,    \* image-update-history table: operationId -> item
  csvFiles,      \* csv-files table: fileId -> item
  blobs,         \* S3 bucket: s3Key -> body
  clock,         \* the value new Date() returns
  opsCreated,    \* number of operation ids uuidv4 has handed out
  invocations,   \* number of handler invocations so far
  variantImage,  \* catalog: variant id -> image id it points at
  runs,          \* one entry per invocation of the process branch, with its
                 \* locals and the catalog calls it has issued, in order
  reply          \* the latest create or upload request and the response to it

vars ==
  <<operations, csvFiles, blobs, clock, opsCreated, invocations, variantImage,
    runs, reply>>

\* an operation id no create call ever returned
GhostOp == 0

RunIds == 1..MaxCalls

\* ------------------------------------------------------------ record store
\* PutCommand: the item replaces whatever is stored under its key
PutItem(table, key, item) ==
  [k \in DOMAIN table \cup {key} |-> IF k = key THEN item ELSE table[k]]

\* DynamoDBService.saveImageUpdateOperation
saveImageUpdateOperation(table, operation) ==
  PutItem(table, operation.operationId, operation)

\* DynamoDBService.updateImageUpdateOperation; `updates` holds the entries
\* whose value is not undefined: it sends a PutCommand with the item
\* { operationId, ...updates }
updateImageUpdateOperation(table, operationId, updates) ==
  IF DOMAIN updates = {} THEN table
  ELSE PutItem(table, operationId, updates @@ [operationId |-> operationId])

\* DynamoDBService.saveCSVFileRecord
saveCSVFileRecord(table, record) == PutItem(table, record.fileId, record)

\* DynamoDBService.updateCSVFileRecord: PutCommand with { fileId, ...updates }
updateCSVFileRecord(table, fileId, updates) ==
  PutItem(table, fileId, updates @@ [fileId |-> fileId])

\* DynamoDBService.getCSVFilesForOperation(operationId, fileType): the items
\* of the index whose key attributes equal the two arguments
getCSVFilesForOperation(table, operationId, fileType) ==
  {f \in DOMAIN table :
     /\ "operationId" \in DOMAIN table[f]
     /\ "fileType" \in DOMAIN table[f]
     /\ table[f].operationId = operationId
     /\ table[f].fileType = fileType}

\* S3Service.uploadCSVFile: the key it builds from its own timestamp
S3Key(operationId, fileType, timestamp) == <<operationId, fileType, timestamp>>

\* content.charCodeAt(i) of a token: the inspected characters have their
\* code, '--' the code pair of two dashes, a run of ordinary characters the
\* code of one letter
CharCode(t) ==
  IF t = "," THEN 44 ELSE IF t = "\"" THEN 34 ELSE IF t = " " THEN 32
  ELSE IF t = "\r" THEN 13 ELSE IF t = "\n" THEN 10
  ELSE IF t = "--" THEN 45 * 31 + 45 ELSE 97

\* hash = ((hash << 5) - hash) + char followed by hash & hash, on the two
\* 16-bit halves of the 32-bit hash
HashStep(hash, char) ==
  LET low == hash[2] * 31 + char
  IN <<(hash[1] * 31 + (low \div 65536)) % 65536, low % 65536>>

RECURSIVE calculateChecksumOver(_, _, _, _)
\* the loop of S3Service.calculateChecksum over the characters from..to,
\* entered with `hash`; the range is walked first half, then second half
calculateChecksumOver(content, from, to, hash) ==
  IF from > to THEN hash
  ELSE IF from = to THEN HashStep(hash, CharCode(content[from]))
  ELSE CHOOSE last \in
         {calculateChecksumOver(content, (from + to) \div 2 + 1, to, middle) :
            middle \in {calculateChecksumOver(content, from, (from + to) \div 2, hash)}} :
         TRUE

\* S3Service.calculateChecksum: the hash as a signed 32-bit integer, written
\* in base 16
calculateChecksum(content) ==
  CHOOSE checksum \in
    {<<"hex", (IF hash[1] >= 32768 THEN hash[1] - 65536 ELSE hash[1]) * 65536
              + hash[2]>> :
       hash \in {calculateChecksumOver(content, 1, Len(content), <<0, 0>>)}} :
    TRUE

\* uuidv4() for a file id
NewFileId(table) == Cardinality(DOMAIN table) + 1

\* --------------------------------------------------------- createOperation
RECURSIVE TemplateRowsAnyProduct(_, _)
\* TemplateRows without the product.images.length > 0 test
TemplateRowsAnyProduct(products, product_ids) ==
  IF products = <<>> THEN <<>>
  ELSE LET product == Head(products)
           first == Row(product.id, product.handle,
                        IF product.images # <<>> THEN product.images[1] ELSE <<>>,
                        <<>>)
           extra == Row(product.id, product.handle, <<>>, <<>>)
       IN (IF product.id \in product_ids
           THEN <<first, extra, extra, extra, extra>>
           ELSE <<>>)
          \o TemplateRowsAnyProduct(Tail(products), product_ids)

RECURSIVE TemplateRows(_, _)
\* the loop over productsResponse.products: five rows for every selected
\* product that has an image
TemplateRows(products, product_ids) ==
  IF products = <<>> THEN <<>>
  ELSE LET product == Head(products)
           first == Row(product.id, product.handle,
                        IF product.images # <<>> THEN product.images[1] ELSE <<>>,
                        <<>>)
           extra == Row(product.id, product.handle, <<>>, <<>>)
       IN (IF product.id \in product_ids /\ Len(product.images) > 0
           THEN <<first, extra, extra, extra, extra>>
           ELSE <<>>)
          \o TemplateRows(Tail(products), product_ids)

\* NewOperation with productsCount counting products instead of rows
NewOperationCountsProducts(operationId, timestamp, collection_id, productsCount) ==
  [operationId |-> operationId, timestamp |-> timestamp,
   shopDomain |-> "don-stefani-demo-store.myshopify.com",
   userId |-> "default-user", userName |-> "Default User",
   collectionId |-> collection_id, collectionName |-> CollectionTitle,
   beforeSnapshotS3Key |-> <<operationId, "before-snapshot.json">>,
   afterSnapshotS3Key |-> <<operationId, "after-snapshot.json">>,
   status |-> "pending", productsCount |-> productsCount \div 5, imagesUpdated |-> 0]

\* the ImageUpdateOperation the create branch saves
NewOperation(operationId, timestamp, collection_id, productsCount) ==
  [operationId |-> operationId, timestamp |-> timestamp,
   shopDomain |-> "don-stefani-demo-store.myshopify.com",
   userId |-> "default-user", userName |-> "Default User",
   collectionId |-> collection_id, collectionName |-> CollectionTitle,
   beforeSnapshotS3Key |-> <<operationId, "before-snapshot.json">>,
   afterSnapshotS3Key |-> <<operationId, "after-snapshot.json">>,
   status |-> "pending", productsCount |-> productsCount, imagesUpdated |-> 0]

CollectionIds == {<<>>, <<"c1">>}
ProductIdChoices == {{<<"p1">>, <<"p3">>}}
\* product_ids arrays of the create-only specification; p4 is not a product
\* of the collection
SelectableIds == SUBSET {<<"p1">>, <<"p2">>, <<"p3">>, <<"p4">>}

\* the contents the lifecycle and request-validation specifications store
StoredContents ==
  UploadBodies \cup {EncodeCSV(<<>>)}
    \cup {EncodeCSV(TemplateRows(CatalogProducts, ids)) : ids \in ProductIdChoices}

\* their checksums, computed once
KnownChecksums == [content \in StoredContents |-> calculateChecksum(content)]

\* the checksum uploadCSVFile returns
checksumOf(csvContent) ==
  IF csvContent \in StoredContents THEN KnownChecksums[csvContent]
  ELSE calculateChecksum(csvContent)

\* the CSVFileRecord both branches build from the answer of uploadCSVFile
FileRecord(fileId, operationId, fileType, s3Key, csvContent, recordCount, uploadedAt) ==
  [fileId |-> fileId, operationId |-> operationId, fileType |-> fileType,
   fileName |-> <<operationId, fileType>>, s3Key |-> s3Key,
   s3Bucket |-> "product-image-updater-store", fileSize |-> Len(csvContent),
   recordCount |-> recordCount, uploadedAt |-> uploadedAt,
   uploadedBy |-> "default-user", checksum |-> checksumOf(csvContent),
   status |-> "pending"]

\* POST /api/image-updates/operation with a body that passes validation
CreateStores(collection_id, product_ids, timestamp, keyTime) ==
  LET operationId == opsCreated + 1
      csvData == TemplateRows(CatalogProducts, product_ids)
      s3Key == S3Key(operationId, "template", keyTime)
      fileId == NewFileId(csvFiles)
  IN /\ blobs' = PutItem(blobs, s3Key, EncodeCSV(csvData))
     /\ csvFiles' = saveCSVFileRecord(csvFiles,
          FileRecord(fileId, operationId, "template", s3Key, EncodeCSV(csvData),
                     Len(csvData), timestamp))
     /\ operations' = saveImageUpdateOperation(operations,
          NewOperation(operationId, timestamp, collection_id, Len(csvData)))
     /\ opsCreated' = operationId

\* the response of the create branch, or of the handler's catch block
CreateReply(collection_id, product_ids, isArray, statusCode, body) ==
  [call |-> "create",
   request |-> [collection_id |-> collection_id, product_ids |-> product_ids,
                isArray |-> isArray],
   statusCode |-> statusCode, body |-> body]

\* POST /api/image-updates/operation
createOperation(collection_id, product_ids, isArray) ==
  /\ invocations < MaxCalls
  /\ IF collection_id = <<>> \/ ~isArray
     THEN /\ reply' = CreateReply(collection_id, product_ids, isArray, 500,
                 [error |-> "collection_id and product_ids array are required"])
          /\ UNCHANGED <<operations, csvFiles, blobs, clock, opsCreated, invocations>>
     ELSE /\ CreateStores(collection_id, product_ids, clock, clock)
          /\ reply' = CreateReply(collection_id, product_ids, isArray, 200,
                 [operation |->
                    NewOperation(opsCreated + 1, clock, collection_id,
                      Len(TemplateRows(CatalogProducts, product_ids)))])
          /\ invocations' = invocations + 1
          /\ UNCHANGED clock
  /\ UNCHANGED <<variantImage, runs>>

\* ------------------------------------------------------------ ingestUpload
\* runs of letters and digits that occur in request bodies
AlnumRuns ==
  {"b1", "WebKitFormBoundary7", "p1", "p2", "p3", "h1", "h2", "h3",
   "img1", "img2", "img9", "Coll"}

\* header text that contains 'Content-Type: text/csv', 'name="csv"' or
\* 'filename='
CsvPartHeaders ==
  {"Content-Type: text/csv",
   "Content-Disposition: form-data; name=csv-quoted",
   "Content-Disposition: form-data; name=file; filename=upload.csv"}

\* header text that contains none of the three
OtherPartHeaders == {"Content-Disposition: form-data; name=note"}

ContentTypeLine == "Content-Type: multipart/form-data; boundary="

RECURSIVE IndexOfFrom(_, _, _)
\* String.prototype.indexOf(sep, i) on token sequences, 0 when absent
IndexOfFrom(s, sep, i) ==
  IF i + Len(sep) - 1 > Len(s) THEN 0
  ELSE IF SubSeq(s, i, i + Len(sep) - 1) = sep THEN i
  ELSE IndexOfFrom(s, sep, i + 1)

IndexOf(s, sep) == IndexOfFrom(s, sep, 1)

RECURSIVE SplitOnFrom(_, _, _, _)
\* String.prototype.split(sep) for a separator of several tokens
SplitOnFrom(s, sep, i, cur) ==
  IF i > Len(s) THEN <<cur>>
  ELSE IF i + Len(sep) - 1 <= Len(s) /\ SubSeq(s, i, i + Len(sep) - 1) = sep
       THEN <<cur>> \o SplitOnFrom(s, sep, i + Len(sep), <<>>)
       ELSE SplitOnFrom(s, sep, i + 1, Append(cur, s[i]))

SplitOn(s, sep) == SplitOnFrom(s, sep, 1, <<>>)

RECURSIVE boundaryMatchFrom(_, _)
\* decodedBody.match(/--([a-zA-Z0-9]+)/): the run of letters and digits after
\* the leftmost '--' that has one, <<>> when there is no match
boundaryMatchFrom(decodedBody, i) ==
  IF i >= Len(decodedBody) THEN <<>>
  ELSE IF decodedBody[i] = "--" /\ decodedBody[i + 1] \in AlnumRuns
       THEN <<decodedBody[i + 1]>>
       ELSE boundaryMatchFrom(decodedBody, i + 1)

boundaryMatch(decodedBody) == boundaryMatchFrom(decodedBody, 1)

RECURSIVE RestOfLine(_, _)
\* the characters from position i up to the next \r or \n
RestOfLine(s, i) ==
  IF i > Len(s) \/ s[i] \in {"\r", "\n"} THEN <<>>
  ELSE <<s[i]>> \o RestOfLine(s, i + 1)

\* decodedBody.match(/Content-Type: multipart\/form-data; boundary=([^\r\n]+)/)
contentTypeMatch(decodedBody) ==
  LET at == {i \in 1..Len(decodedBody) :
               /\ decodedBody[i] = ContentTypeLine
               /\ RestOfLine(decodedBody, i + 1) # <<>>}
  IN IF at = {} THEN <<>>
     ELSE RestOfLine(decodedBody, 1 + CHOOSE i \in at : \A j \in at : i <= j)

RECURSIVE csvPartOf(_)
\* the loop over parts: the text after the first \r\n\r\n of the first
\* non-empty part that names a CSV file and has such a separator
csvPartOf(parts) ==
  IF parts = <<>> THEN <<>>
  ELSE LET part == Head(parts)
           contentStart == IndexOf(part, <<"\r", "\n", "\r", "\n">>)
       IN IF /\ part # <<>>
             /\ \E k \in 1..Len(part) : part[k] \in CsvPartHeaders
             /\ contentStart # 0
          THEN SubSeq(part, contentStart + 4, Len(part))
          ELSE csvPartOf(Tail(parts))

\* the part of the upload branch that turns the request body into csvContent,
\* or throws
ExtractCsv(body, isBase64Encoded) ==
  IF body = <<>> THEN [error |-> "No file uploaded", csvContent |-> <<>>]
  ELSE IF ~isBase64Encoded THEN [error |-> "", csvContent |-> body]
  ELSE LET boundary == IF boundaryMatch(body) # <<>> THEN boundaryMatch(body)
                       ELSE contentTypeMatch(body)
           csvPart == csvPartOf(SplitOn(body, <<"--">> \o boundary))
       IN IF boundary = <<>>
          THEN [error |-> "Could not find multipart boundary", csvContent |-> <<>>]
          ELSE IF csvPart = <<>>
          THEN [error |-> "No CSV file found in upload", csvContent |-> <<>>]
          ELSE [error |-> "", csvContent |-> Trim(csvPart)]

\* Math.max(0, lines.length - 1)
RecordCount(csvContent) ==
  LET n == Len(NonBlankLines(csvContent)) - 1 IN IF n > 0 THEN n ELSE 0

IngestStores(operationId, csvContent, keyTime, uploadedAt) ==
  LET s3Key == S3Key(operationId, "upload", keyTime)
      fileId == NewFileId(csvFiles)
  IN /\ blobs' = PutItem(blobs, s3Key, csvContent)
     /\ csvFiles' = saveCSVFileRecord(csvFiles,
          FileRecord(fileId, operationId, "upload", s3Key, csvContent,
                     RecordCount(csvContent), uploadedAt))

\* a multipart/form-data body with one part
Multipart(preamble, delimiter, partHeaders, content) ==
  preamble \o delimiter \o <<"\r", "\n">> \o partHeaders
    \o <<"\r", "\n", "\r", "\n">> \o content \o <<"\r", "\n">>
    \o delimiter \o <<"--", "\r", "\n">>

\* the template of an operation without rows, as text
HeaderOnlyCsv == EncodeCSV(<<>>)

\* upload requests: plain bodies (none, blank, a CSV) and base64 bodies that
\* decode to a multipart body with boundary b1, with a browser boundary that
\* starts with dashes, with a boundary named only in a Content-Type line, to
\* text without boundary, to a body without CSV part, and to a body whose CSV
\* part is empty
UploadRequests ==
  {[body |-> <<>>, isBase64Encoded |-> FALSE],
   [body |-> BlankBody, isBase64Encoded |-> FALSE],
   [body |-> HeaderOnlyCsv, isBase64Encoded |-> FALSE],
   [body |-> Multipart(<<>>, <<"--", "b1">>,
                <<"Content-Disposition: form-data; name=file; filename=upload.csv",
                  "\r", "\n", "Content-Type: text/csv">>, HeaderOnlyCsv),
    isBase64Encoded |-> TRUE],
   [body |-> Multipart(<<>>, <<"--", "--", "--", "WebKitFormBoundary7">>,
                <<"Content-Disposition: form-data; name=csv-quoted">>, HeaderOnlyCsv),
    isBase64Encoded |-> TRUE],
   [body |-> Multipart(<<ContentTypeLine, "=_b2", "\r", "\n", "\r", "\n">>,
                <<"--", "=_b2">>,
                <<"Content-Disposition: form-data; name=csv-quoted">>, HeaderOnlyCsv),
    isBase64Encoded |-> TRUE],
   [body |-> <<"Content-Type: text/csv", "\r", "\n", "\r", "\n">> \o HeaderOnlyCsv,
    isBase64Encoded |-> TRUE],
   [body |-> Multipart(<<>>, <<"--", "b1">>,
                <<"Content-Disposition: form-data; name=note">>, <<"x">>),
    isBase64Encoded |-> TRUE],
   [body |-> <<"--", "b1", "\r", "\n", "Content-Type: text/csv",
               "\r", "\n", "\r", "\n", "--", "b1", "--">>,
    isBase64Encoded |-> TRUE]}

\* the response of the upload branch, or of the handler's catch block
UploadReply(operationId, body, isBase64Encoded, statusCode, responseBody) ==
  [call |-> "upload",
   request |-> [operationId |-> operationId, body |-> body,
                isBase64Encoded |-> isBase64Encoded],
   statusCode |-> statusCode, body |-> responseBody]

UploadSuccess(recordCount) ==
  [success |-> TRUE, message |-> "CSV uploaded successfully",
   recordsProcessed |-> recordCount]

\* ingestUpload with the request body stored before it is examined
ingestUploadKeepsBody(operationId, body, isBase64Encoded) ==
  LET extracted == ExtractCsv(body, isBase64Encoded)
  IN /\ invocations < MaxCalls
     /\ IF extracted.error # ""
        THEN /\ reply' = UploadReply(operationId, body, isBase64Encoded, 500,
                                     [error |-> extracted.error])
             /\ blobs' = PutItem(blobs, S3Key(operationId, "upload", clock), body)
             /\ UNCHANGED <<csvFiles, clock, invocations>>
        ELSE /\ IngestStores(operationId, extracted.csvContent, clock + 1, clock + 1)
             /\ reply' = UploadReply(operationId, body, isBase64Encoded, 200,
                                     UploadSuccess(RecordCount(extracted.csvContent)))
             /\ clock' = clock + 1
             /\ invocations' = invocations + 1
     /\ UNCHANGED <<operations, opsCreated, variantImage, runs>>

\* ingestUpload with the Operation record put back to pending
ingestUploadResetsStatus(operationId, body, isBase64Encoded) ==
  LET extracted == ExtractCsv(body, isBase64Encoded)
  IN /\ invocations < MaxCalls
     /\ IF extracted.error # ""
        THEN /\ reply' = UploadReply(operationId, body, isBase64Encoded, 500,
                                     [error |-> extracted.error])
             /\ UNCHANGED <<operations, csvFiles, blobs, clock, invocations>>
        ELSE /\ IngestStores(operationId, extracted.csvContent, clock + 1, clock + 1)
             /\ operations' =
                  IF operationId \in DOMAIN operations
                  THEN updateImageUpdateOperation(operations, operationId,
                                                  [status |-> "pending"])
                  ELSE operations
             /\ reply' = UploadReply(operationId, body, isBase64Encoded, 200,
                                     UploadSuccess(RecordCount(extracted.csvContent)))
             /\ clock' = clock + 1
             /\ invocations' = invocations + 1
     /\ UNCHANGED <<opsCreated, variantImage, runs>>

\* POST /api/image-updates/operation/{id}/upload; `body` is the request body,
\* after Buffer.from(body, 'base64').toString('utf-8') when isBase64Encoded
\* (Date.now() and new Date() are read one millisecond later at each upload)
ingestUpload(operationId, body, isBase64Encoded) ==
  LET extracted == ExtractCsv(body, isBase64Encoded)
  IN /\ invocations < MaxCalls
     /\ IF extracted.error # ""
        THEN /\ reply' = UploadReply(operationId, body, isBase64Encoded, 500,
                                     [error |-> extracted.error])
             /\ UNCHANGED <<csvFiles, blobs, clock, invocations>>
        ELSE /\ IngestStores(operationId, extracted.csvContent, clock + 1, clock + 1)
             /\ reply' = UploadReply(operationId, body, isBase64Encoded, 200,
                                     UploadSuccess(RecordCount(extracted.csvContent)))
             /\ clock' = clock + 1
             /\ invocations' = invocations + 1
     /\ UNCHANGED <<operations, opsCreated, variantImage, runs>>

\* --------------------------------------------------------- processOperation
\* the locals of one invocation of the process branch; `calls` is the list of
\* catalog calls it has issued and `writes` the list of statuses it has
\* written to the Operation record
IdleRun ==
  [pc |-> "idle", operationId |-> GhostOp, fileId |-> 0, csvData |-> <<>>,
   productGroups |-> <<>>, g |-> 0, variants |-> <<>>, imagesToDelete |-> <<>>,
   processedImages |-> {}, i |-> 0, newImage |-> <<>>, toRepoint |-> <<>>,
   d |-> 0, imagesUpdated |-> 0, errors |-> <<>>, response |-> [statusCode |-> 0],
   calls |-> <<>>, writes |-> <<>>]

\* the response of the handler's catch block
ErrorResponse(message) == [statusCode |-> 500, body |-> [error |-> message]]

\* the 200 response of the process branch; `errors` is left out of the body
\* when the list is empty
ProcessResponse(imagesUpdated, errors) ==
  [statusCode |-> 200,
   body |-> [success |-> TRUE,
             message |-> <<"Processed", imagesUpdated, "images", Len(errors), "errors">>,
             imagesUpdated |-> imagesUpdated]
            @@ (IF Len(errors) > 0 THEN [errors |-> errors] ELSE <<>>)]

\* `Skipping product ${row.product_id}: Invalid image URL "${row.new_image_url}"`
SkipMsg(row) ==
  <<"Skipping product ">> \o row.product_id \o <<": Invalid image URL ", "\"">>
    \o row.new_image_url \o <<"\"">>

\* `Failed to update product ${productId}: ${error}`
FailMsg(productId, error) ==
  <<"Failed to update product ">> \o productId \o <<": ", error>>

RECURSIVE InvalidUrlErrors(_)
\* the errors the grouping loop pushes, in row order
InvalidUrlErrors(csvData) ==
  IF csvData = <<>> THEN <<>>
  ELSE LET row == Head(csvData)
       IN (IF row.new_image_url # <<>> /\ ~isValidImageUrl(row.new_image_url)
           THEN <<SkipMsg(row)>> ELSE <<>>)
          \o InvalidUrlErrors(Tail(csvData))

\* productGroups.get(row.product_id).push(row), creating the entry at the end
\* of the Map when the key is new
PushRow(groups, row) ==
  IF \E k \in 1..Len(groups) : groups[k].productId = row.product_id
  THEN [k \in 1..Len(groups) |->
          IF groups[k].productId = row.product_id
          THEN [groups[k] EXCEPT !.rows = Append(@, row)]
          ELSE groups[k]]
  ELSE Append(groups, [productId |-> row.product_id, rows |-> <<row>>])

RECURSIVE GroupRowsNoValidation(_, _)
\* GroupRows without the isValidImageUrl test
GroupRowsNoValidation(csvData, groups) ==
  IF csvData = <<>> THEN groups
  ELSE LET row == Head(csvData)
       IN IF row.new_image_url = <<>>
          THEN GroupRowsNoValidation(Tail(csvData), groups)
          ELSE GroupRowsNoValidation(Tail(csvData), PushRow(groups, row))

RECURSIVE GroupRowsKeepEmpty(_, _)
\* GroupRows without the empty-URL test
GroupRowsKeepEmpty(csvData, groups) ==
  IF csvData = <<>> THEN groups
  ELSE LET row == Head(csvData)
       IN IF row.new_image_url # <<>> /\ ~isValidImageUrl(row.new_image_url)
          THEN GroupRowsKeepEmpty(Tail(csvData), groups)
          ELSE GroupRowsKeepEmpty(Tail(csvData), PushRow(groups, row))

RECURSIVE GroupRows(_, _)
\* the grouping loop: rows with an empty or invalid URL are skipped
GroupRows(csvData, groups) ==
  IF csvData = <<>> THEN groups
  ELSE LET row == Head(csvData)
       IN IF row.new_image_url = <<>> \/ ~isValidImageUrl(row.new_image_url)
          THEN GroupRows(Tail(csvData), groups)
          ELSE GroupRows(Tail(csvData), PushRow(groups, row))

\* csvFiles.sort((a, b) => b.uploadedAt - a.uploadedAt)[0]: a file with the
\* largest uploadedAt (which one, among equals, depends on the query order)
LatestFiles(table, files) ==
  {f \in files : \A h \in files : table[h].uploadedAt <= table[f].uploadedAt}

\* the image id Shopify gives the next created image
OkUploads(calls) ==
  Len(SelectSeq(calls, LAMBDA c : c.fn = "uploadImage" /\ c.ok))

RECURSIVE ImagesCreated(_)
\* number of images created by the runs 1..r
ImagesCreated(r) ==
  IF r = 0 THEN 0 ELSE OkUploads(runs[r].calls) + ImagesCreated(r - 1)

NewImageId == <<"new" \o ToString(1 + ImagesCreated(MaxCalls))>>

Call(fn, productId, arg, image, position, ok) ==
  [fn |-> fn, productId |-> productId, arg |-> arg,
   image |-> image, position |-> position, ok |-> ok]

\* head of the `for (const [productId, rows] of productGroups)` loop
EnterGroup(run, g) ==
  LET cleared == [run EXCEPT !.g = g, !.variants = <<>>, !.imagesToDelete = <<>>,
                             !.processedImages = {}, !.i = 0, !.newImage = <<>>,
                             !.toRepoint = <<>>, !.d = 0]
  IN IF g > Len(run.productGroups)
     THEN [cleared EXCEPT !.pc = "final"]
     ELSE [cleared EXCEPT !.pc = "getProduct"]

\* head of the `for (const imageId of imagesToDelete)` loop
EnterDelete(run, d) ==
  IF d > Len(run.imagesToDelete)
  THEN EnterGroup(run, run.g + 1)
  ELSE [run EXCEPT !.pc = "delete", !.d = d]

\* EnterRow without the processedImages test
EnterRowNoDedup(run, i) ==
  IF i >= Len(run.productGroups[run.g].rows) THEN EnterDelete(run, 1)
  ELSE [run EXCEPT !.pc = "upload", !.i = i]

RECURSIVE EnterRow(_, _)
\* head of the `for (let i = 0; i < rows.length; i++)` loop, up to the next
\* await: rows whose URL is in processedImages are passed over
EnterRow(run, i) ==
  LET rows == run.productGroups[run.g].rows
  IN IF i >= Len(rows) THEN EnterDelete(run, 1)
     ELSE IF rows[i + 1].new_image_url \in run.processedImages
          THEN EnterRow(run, i + 1)
          ELSE [run EXCEPT !.pc = "upload", !.i = i]

\* a catch block that leaves the group loop
CatchGroupAbort(run, error) ==
  EnterGroup([run EXCEPT !.errors =
                Append(@, FailMsg(run.productGroups[run.g].productId, error))],
             Len(run.productGroups) + 1)

\* a catch block that lets the error reach the handler's catch block
CatchGroupRethrow(run, error) ==
  [run EXCEPT !.pc = "done", !.response = ErrorResponse(error)]

\* a catch block that goes on to the delete loop of the failing group
CatchGroupCleans(run, error) ==
  EnterDelete([run EXCEPT !.errors =
                 Append(@, FailMsg(run.productGroups[run.g].productId, error))],
              1)

\* the catch block of the group loop
CatchGroup(run, error) ==
  EnterGroup([run EXCEPT !.errors =
                Append(@, FailMsg(run.productGroups[run.g].productId, error))],
             run.g + 1)

\* FinishRow with imagesToDelete kept as a list instead of a Set
FinishRowNoSet(run) ==
  LET row == run.productGroups[run.g].rows[run.i + 1]
      marked ==
        IF row.current_image_id # <<>>
        THEN Append(run.imagesToDelete, row.current_image_id)
        ELSE run.imagesToDelete
  IN EnterRow([run EXCEPT !.imagesToDelete = marked,
                          !.imagesUpdated = @ + 1,
                          !.newImage = <<>>, !.toRepoint = <<>>],
              run.i + 1)

\* FinishRow without imagesUpdated++
FinishRowNoCount(run) ==
  LET row == run.productGroups[run.g].rows[run.i + 1]
      marked ==
        IF row.current_image_id # <<>>
           /\ \A k \in 1..Len(run.imagesToDelete) :
                 run.imagesToDelete[k] # row.current_image_id
        THEN Append(run.imagesToDelete, row.current_image_id)
        ELSE run.imagesToDelete
  IN EnterRow([run EXCEPT !.imagesToDelete = marked,
                          !.newImage = <<>>, !.toRepoint = <<>>],
              run.i + 1)

\* tail of the row loop body: imagesToDelete.add, imagesUpdated++
FinishRow(run) ==
  LET row == run.productGroups[run.g].rows[run.i + 1]
      marked ==
        IF row.current_image_id # <<>>
           /\ \A k \in 1..Len(run.imagesToDelete) :
                 run.imagesToDelete[k] # row.current_image_id
        THEN Append(run.imagesToDelete, row.current_image_id)
        ELSE run.imagesToDelete
  IN EnterRow([run EXCEPT !.imagesToDelete = marked,
                          !.imagesUpdated = @ + 1,
                          !.newImage = <<>>, !.toRepoint = <<>>],
              run.i + 1)

\* POST .../process up to the first record-store write: select the latest
\* upload file, download and decode it
ProcessBegin(r, operationId) ==
  /\ UNCHANGED reply
  /\ invocations < MaxCalls
  /\ invocations' = invocations + 1
  /\ runs[r].pc = "idle"
  /\ \A q \in RunIds : q < r => runs[q].pc # "idle"
  /\ Cardinality({q \in RunIds : runs[q].pc \notin {"idle", "done"}}) < MaxActive
  /\ LET files == getCSVFilesForOperation(csvFiles, operationId, "upload")
     IN IF files = {}
        THEN runs' = [runs EXCEPT ![r] =
               [@ EXCEPT !.pc = "done", !.operationId = operationId,
                         !.response = ErrorResponse("No uploaded CSV found for this operation")]]
        ELSE \E latestFile \in LatestFiles(csvFiles, files) :
               LET lines == NonBlankLines(blobs[csvFiles[latestFile].s3Key])
               IN IF Len(lines) = 0
                  THEN runs' = [runs EXCEPT ![r] =
                         [@ EXCEPT !.pc = "done", !.operationId = operationId,
                                   !.response = ErrorResponse("CSV file is empty")]]
                  ELSE runs' = [runs EXCEPT ![r] =
                         [@ EXCEPT !.pc = "mark", !.operationId = operationId,
                                   !.fileId = latestFile,
                                   !.csvData = DecodeRows(lines)]]
  /\ UNCHANGED <<operations, csvFiles, blobs, clock, opsCreated, variantImage>>

\* ProcessMark without its record-store write
ProcessMarkNoWrite(r) ==
  /\ UNCHANGED reply
  /\ runs[r].pc = "mark"
  /\ runs' = [runs EXCEPT ![r] =
       EnterGroup([@ EXCEPT !.errors = InvalidUrlErrors(runs[r].csvData),
                            !.productGroups = GroupRows(runs[r].csvData, <<>>)], 1)]
  /\ UNCHANGED <<operations, csvFiles, blobs, clock, opsCreated, invocations, variantImage>>

\* updateImageUpdateOperation(operationId, { status: 'processing' }) and the
\* grouping loop that follows it
ProcessMark(r) ==
  /\ UNCHANGED reply
  /\ runs[r].pc = "mark"
  /\ operations' = updateImageUpdateOperation(operations, runs[r].operationId,
                                              [status |-> "processing"])
  /\ runs' = [runs EXCEPT ![r] =
       EnterGroup([@ EXCEPT !.writes = Append(@, "processing"),
                            !.errors = InvalidUrlErrors(runs[r].csvData),
                            !.productGroups = GroupRows(runs[r].csvData, <<>>)], 1)]
  /\ UNCHANGED <<csvFiles, blobs, clock, opsCreated, invocations, variantImage>>

\* shopifyService.getProduct(productId)
ProcessGetProduct(r, ok) ==
  /\ UNCHANGED reply
  /\ runs[r].pc = "getProduct"
  /\ LET productId == runs[r].productGroups[runs[r].g].productId
         vs == VariantsOf(productId)
         called == [runs[r] EXCEPT !.calls =
                      Append(@, Call("getProduct", productId, <<>>, <<>>, 0, ok))]
     IN runs' = [runs EXCEPT ![r] =
          IF ok
          THEN EnterRow([called EXCEPT !.variants =
                  [k \in 1..Len(vs) |->
                     [id |-> vs[k], image_id |-> variantImage[vs[k]]]]], 0)
          ELSE CatchGroup(called, "getProduct error")]
  /\ UNCHANGED <<operations, csvFiles, blobs, clock, opsCreated, invocations,
                 variantImage>>

\* ProcessUpload that re-points variants after the upload of any row
ProcessUploadAnyRow(r, ok) ==
  /\ UNCHANGED reply
  /\ runs[r].pc = "upload"
  /\ LET run == runs[r]
         productId == run.productGroups[run.g].productId
         row == run.productGroups[run.g].rows[run.i + 1]
         position == run.i + 1
         image == IF ok THEN NewImageId ELSE <<>>
         matching == SelectSeq(run.variants,
                       LAMBDA v : v.image_id = row.current_image_id)
         added == [run EXCEPT !.processedImages = @ \cup {row.new_image_url},
                              !.newImage = image,
                              !.calls = Append(@, Call("uploadImage", productId,
                                          row.new_image_url, image, position, ok))]
     IN runs' = [runs EXCEPT ![r] =
          IF ~ok THEN CatchGroup(added, "Image upload error")
          ELSE IF row.current_image_id # <<>> /\ matching # <<>>
               THEN [added EXCEPT !.pc = "variant",
                       !.toRepoint = [k \in 1..Len(matching) |-> matching[k].id]]
               ELSE FinishRow(added)]
  /\ UNCHANGED <<operations, csvFiles, blobs, clock, opsCreated, invocations,
                 variantImage>>

\* processedImages.add(url); shopifyService.uploadImage(productId, url, i + 1)
ProcessUpload(r, ok) ==
  /\ UNCHANGED reply
  /\ runs[r].pc = "upload"
  /\ LET run == runs[r]
         productId == run.productGroups[run.g].productId
         row == run.productGroups[run.g].rows[run.i + 1]
         position == run.i + 1
         image == IF ok THEN NewImageId ELSE <<>>
         matching == SelectSeq(run.variants,
                       LAMBDA v : v.image_id = row.current_image_id)
         added == [run EXCEPT !.processedImages = @ \cup {row.new_image_url},
                              !.newImage = image,
                              !.calls = Append(@, Call("uploadImage", productId,
                                          row.new_image_url, image, position, ok))]
     IN runs' = [runs EXCEPT ![r] =
          IF ~ok THEN CatchGroup(added, "Image upload error")
          ELSE IF run.i = 0 /\ row.current_image_id # <<>> /\ matching # <<>>
               THEN [added EXCEPT !.pc = "variant",
                       !.toRepoint = [k \in 1..Len(matching) |-> matching[k].id]]
               ELSE FinishRow(added)]
  /\ UNCHANGED <<operations, csvFiles, blobs, clock, opsCreated, invocations,
                 variantImage>>

\* shopifyService.updateVariantImage(variant.id, imageResponse.image.id)
ProcessUpdateVariant(r, ok) ==
  /\ UNCHANGED reply
  /\ runs[r].pc = "variant"
  /\ LET run == runs[r]
         productId == run.productGroups[run.g].productId
         variant == Head(run.toRepoint)
         rest == [run EXCEPT !.toRepoint = Tail(@),
                             !.calls = Append(@, Call("updateVariantImage", productId,
                                         variant, run.newImage, 0, ok))]
     IN /\ variantImage' = IF ok THEN [variantImage EXCEPT ![variant] = run.newImage]
                           ELSE variantImage
        /\ runs' = [runs EXCEPT ![r] =
             IF ~ok THEN CatchGroup(rest, "Variant update error")
             ELSE IF rest.toRepoint = <<>> THEN FinishRow(rest)
             ELSE rest]
  /\ UNCHANGED <<operations, csvFiles, blobs, clock, opsCreated, invocations>>

\* ProcessDelete without the inner try/catch: a failure reaches the catch
\* block of the group loop
ProcessDeleteEscalates(r, ok) ==
  /\ UNCHANGED reply
  /\ runs[r].pc = "delete"
  /\ LET run == runs[r]
         productId == run.productGroups[run.g].productId
         called == [run EXCEPT !.calls = Append(@, Call("deleteImage", productId,
                                            run.imagesToDelete[run.d], <<>>, 0, ok))]
     IN runs' = [runs EXCEPT ![r] =
          IF ok THEN EnterDelete(called, run.d + 1)
          ELSE CatchGroup(called, "Image delete error")]
  /\ UNCHANGED <<operations, csvFiles, blobs, clock, opsCreated, invocations,
                 variantImage>>

\* shopifyService.deleteImage(imageId, productId) inside its own try/catch
ProcessDelete(r, ok) ==
  /\ UNCHANGED reply
  /\ runs[r].pc = "delete"
  /\ LET run == runs[r]
         productId == run.productGroups[run.g].productId
         called == [run EXCEPT !.calls = Append(@, Call("deleteImage", productId,
                                            run.imagesToDelete[run.d], <<>>, 0, ok))]
     IN runs' = [runs EXCEPT ![r] = EnterDelete(called, run.d + 1)]
  /\ UNCHANGED <<operations, csvFiles, blobs, clock, opsCreated, invocations,
                 variantImage>>

\* FinalUpdates with the two statuses exchanged
FinalUpdatesInverted(imagesUpdated, errors) ==
  [status |-> IF Len(errors) = 0 THEN "failed" ELSE "completed",
   imagesUpdated |-> imagesUpdated]
  @@ (IF Len(errors) > 0 THEN [errorMessage |-> Join(errors, "; ")] ELSE <<>>)

\* FinalUpdates with errorMessage always set to errors.join('; ')
FinalUpdatesAlwaysMessage(imagesUpdated, errors) ==
  [status |-> IF Len(errors) = 0 THEN "completed" ELSE "failed",
   imagesUpdated |-> imagesUpdated, errorMessage |-> Join(errors, "; ")]

\* the update object of the final write, without its undefined entries
FinalUpdates(imagesUpdated, errors) ==
  [status |-> IF Len(errors) = 0 THEN "completed" ELSE "failed",
   imagesUpdated |-> imagesUpdated]
  @@ (IF Len(errors) > 0 THEN [errorMessage |-> Join(errors, "; ")] ELSE <<>>)

\* ProcessFinal with a conditional write: the record is written only while
\* its status is still processing
ProcessFinalIfProcessing(r) ==
  /\ UNCHANGED reply
  /\ runs[r].pc = "final"
  /\ operations' =
       IF operations[runs[r].operationId].status = "processing"
       THEN updateImageUpdateOperation(operations, runs[r].operationId,
              FinalUpdates(runs[r].imagesUpdated, runs[r].errors))
       ELSE operations
  /\ runs' = [runs EXCEPT ![r] =
       [@ EXCEPT !.pc = "file",
                 !.writes = Append(@, FinalUpdates(runs[r].imagesUpdated,
                                                    runs[r].errors).status)]]
  /\ UNCHANGED <<csvFiles, blobs, clock, opsCreated, invocations, variantImage>>

\* updateImageUpdateOperation(operationId, { status: finalStatus, ... })
ProcessFinal(r) ==
  /\ UNCHANGED reply
  /\ runs[r].pc = "final"
  /\ operations' = updateImageUpdateOperation(operations, runs[r].operationId,
                     FinalUpdates(runs[r].imagesUpdated, runs[r].errors))
  /\ runs' = [runs EXCEPT ![r] =
       [@ EXCEPT !.pc = "file",
                 !.writes = Append(@, FinalUpdates(runs[r].imagesUpdated,
                                                    runs[r].errors).status)]]
  /\ UNCHANGED <<csvFiles, blobs, clock, opsCreated, invocations, variantImage>>

\* ProcessFileStatus that marks the file only when the run had no error
ProcessFileStatusOnSuccess(r) ==
  /\ UNCHANGED reply
  /\ runs[r].pc = "file"
  /\ csvFiles' = IF runs[r].errors = <<>>
                 THEN updateCSVFileRecord(csvFiles, runs[r].fileId,
                                          [status |-> "processed"])
                 ELSE csvFiles
  /\ runs' = [runs EXCEPT ![r] =
       [@ EXCEPT !.pc = "done",
                 !.response = ProcessResponse(runs[r].imagesUpdated, runs[r].errors)]]
  /\ UNCHANGED <<operations, blobs, clock, opsCreated, invocations, variantImage>>

\* updateCSVFileRecord(latestFile.fileId, { status: 'processed' }) and the
\* 200 response
ProcessFileStatus(r) ==
  /\ UNCHANGED reply
  /\ runs[r].pc = "file"
  /\ csvFiles' = updateCSVFileRecord(csvFiles, runs[r].fileId,
                                     [status |-> "processed"])
  /\ runs' = [runs EXCEPT ![r] =
       [@ EXCEPT !.pc = "done",
                 !.response = ProcessResponse(runs[r].imagesUpdated, runs[r].errors)]]
  /\ UNCHANGED <<operations, blobs, clock, opsCreated, invocations, variantImage>>

\* ----------------------------------------------------------- specifications
\* requests name an operation that createOperation returned
TargetOps == 1..opsCreated

\* The lifecycle of operations under well-formed create and upload requests

Init ==
  /\ operations = <<>>
  /\ csvFiles = <<>>
  /\ blobs = <<>>
  /\ clock = 0
  /\ opsCreated = 0
  /\ invocations = 0
  /\ variantImage = InitialVariantImage
  /\ runs = [r \in RunIds |-> IdleRun]
  /\ reply = [call |-> "none", statusCode |-> 0]

Next ==
  \/ \E ids \in ProductIdChoices : createOperation(<<"c1">>, ids, TRUE)
  \/ \E op \in TargetOps, body \in UploadBodies : ingestUpload(op, body, FALSE)
  \/ \E r \in RunIds, op \in TargetOps : ProcessBegin(r, op)
  \/ \E r \in RunIds : ProcessMark(r)
  \/ \E r \in RunIds, ok \in BOOLEAN : ProcessGetProduct(r, ok)
  \/ \E r \in RunIds, ok \in BOOLEAN : ProcessUpload(r, ok)
  \/ \E r \in RunIds, ok \in BOOLEAN : ProcessUpdateVariant(r, ok)
  \/ \E r \in RunIds, ok \in BOOLEAN : ProcessDelete(r, ok)
  \/ \E r \in RunIds : ProcessFinal(r)
  \/ \E r \in RunIds : ProcessFileStatus(r)

Spec == Init /\ [][Next]_vars

\* One process call on an operation that was created and then received one
\* upload: the stores are what createOperation(c1, {p1, p3}) followed by
\* ingestUpload(1, body) leave behind
InitRunOver(bodies) ==
  \E body \in bodies :
    LET template == TemplateRows(CatalogProducts, {<<"p1">>, <<"p3">>})
    IN /\ operations =
            saveImageUpdateOperation(<<>>, NewOperation(1, 0, <<"c1">>, Len(template)))
       /\ csvFiles =
            saveCSVFileRecord(
              saveCSVFileRecord(<<>>,
                FileRecord(1, 1, "template", S3Key(1, "template", 0),
                           EncodeCSV(template), Len(template), 0)),
              FileRecord(2, 1, "upload", S3Key(1, "upload", 1), body,
                         RecordCount(body), 1))
       /\ blobs = PutItem(PutItem(<<>>, S3Key(1, "template", 0), EncodeCSV(template)),
                          S3Key(1, "upload", 1), body)
       /\ clock = 1
       /\ opsCreated = 1
       /\ invocations = 2
       /\ variantImage = InitialVariantImage
       /\ runs = [r \in RunIds |-> IdleRun]
       /\ reply = UploadReply(1, body, FALSE, 200, UploadSuccess(RecordCount(body)))

InitRun == InitRunOver(RunBodies)

NextRun ==
  \/ ProcessBegin(1, 1)
  \/ ProcessMark(1)
  \/ \E ok \in BOOLEAN : ProcessGetProduct(1, ok)
  \/ \E ok \in BOOLEAN : ProcessUpload(1, ok)
  \/ \E ok \in BOOLEAN : ProcessUpdateVariant(1, ok)
  \/ \E ok \in BOOLEAN : ProcessDelete(1, ok)
  \/ ProcessFinal(1)
  \/ ProcessFileStatus(1)

SpecRun == InitRun /\ [][NextRun]_vars

\* One process call that, once it has begun, keeps running: every awaited
\* catalog or record-store call returns or throws, and the handler goes on
\* from there.  The bodies are built from the rows of three products, two of
\* them for the first product, and an invalid-URL row
LiveRows ==
  {Row(<<"p1">>, <<"h1">>, <<"img1">>, UrlA),
   Row(<<"p1">>, <<"h1">>, <<>>, UrlB),
   Row(<<"p2">>, <<"h2">>, <<"img2">>, UrlA),
   Row(<<"p3">>, <<"h3">>, <<"img1">>, UrlA),
   Row(<<"p1">>, <<"h1">>, <<>>, BadUrl)}

LiveBodies == {EncodeCSV(rows) : rows \in UNION {[1..k -> LiveRows] : k \in 0..MaxRows}}

\* the steps of the call after its entry
RunStep ==
  \/ ProcessMark(1)
  \/ \E ok \in BOOLEAN : ProcessGetProduct(1, ok)
  \/ \E ok \in BOOLEAN : ProcessUpload(1, ok)
  \/ \E ok \in BOOLEAN : ProcessUpdateVariant(1, ok)
  \/ \E ok \in BOOLEAN : ProcessDelete(1, ok)
  \/ ProcessFinal(1)
  \/ ProcessFileStatus(1)

NextLive == ProcessBegin(1, 1) \/ RunStep

SpecLive == InitRunOver(LiveBodies) /\ [][NextLive]_vars /\ WF_vars(RunStep)

\* Create requests only, over every selection of products and with the
\* malformed requests
NextCreate ==
  /\ invocations < MaxCreates
  /\ \E c \in CollectionIds, ids \in SelectableIds, isArray \in BOOLEAN :
       createOperation(c, ids, isArray)

SpecCreate == Init /\ [][NextCreate]_vars

\* the operation ids requests may carry in their path
ApiTargets == (1..opsCreated) \cup {GhostOp}

\* Well-formed and malformed requests to the three branches, over uploads
\* without a filled-in row
NextApi ==
  \/ \E c \in CollectionIds, ids \in ProductIdChoices, isArray \in BOOLEAN :
       invocations < MaxApiCalls /\ createOperation(c, ids, isArray)
  \/ \E op \in ApiTargets, u \in UploadRequests :
       invocations < MaxApiCalls /\ ingestUpload(op, u.body, u.isBase64Encoded)
  \/ \E r \in RunIds, op \in ApiTargets :
       invocations < MaxApiCalls /\ ProcessBegin(r, op)
  \/ \E r \in RunIds : ProcessMark(r)
  \/ \E r \in RunIds : ProcessFinal(r)
  \/ \E r \in RunIds : ProcessFileStatus(r)

SpecApi == Init /\ [][NextApi]_vars

\* ================================================================== claims
TerminalStatuses == {"completed", "failed"}

\* C1: once the persisted status of an operation is completed or failed, no
\* later step changes it
C1_TerminalStatesAreFinal ==
  [][\A op \in DOMAIN operations \ {GhostOp} :
       operations[op].status \in TerminalStatuses
         => operations'[op].status = operations[op].status]_vars

\* the status sequences one run may have written
ForwardWrites ==
  {<<>>, <<"processing">>, <<"processing", "completed">>, <<"processing", "failed">>}

\* C2: an Operation record is born pending in createOperation; afterwards its
\* status changes only through a write of a process run and never to pending;
\* a run writes completed or failed only after it has written processing
C2_SingleForwardPath ==
  [][/\ \A op \in DOMAIN operations' \ {GhostOp} :
          /\ "status" \in DOMAIN operations'[op]
          /\ IF op \notin DOMAIN operations
             THEN /\ operations'[op].status = "pending"
                  /\ opsCreated' = op
                  /\ opsCreated = op - 1
                  /\ runs' = runs
             ELSE operations'[op].status # operations[op].status
                    => /\ operations'[op].status # "pending"
                       /\ \E r \in RunIds :
                            /\ runs[r].operationId = op
                            /\ runs'[r].writes =
                                 Append(runs[r].writes, operations'[op].status)
     /\ \A r \in RunIds : runs'[r].writes \in ForwardWrites]_vars

\* C2 witness: an operation created by createOperation was taken to completed
\* by a run that wrote processing first
C2_Witness ==
  \E op \in DOMAIN operations \ {GhostOp}, r \in RunIds :
    /\ operations[op].status = "completed"
    /\ runs[r].operationId = op
    /\ runs[r].writes = <<"processing", "completed">>

\* the fields createOperation sets and processOperation never names
CreationFields ==
  {"timestamp", "shopDomain", "userId", "userName", "collectionId",
   "collectionName", "beforeSnapshotS3Key", "afterSnapshotS3Key", "productsCount"}

\* C3: a write to an Operation record leaves every creation-time field of the
\* stored record present and unchanged
C3_PartialUpdateIsMerge ==
  [][\A op \in DOMAIN operations :
       \A f \in CreationFields :
         f \in DOMAIN operations[op]
           => /\ f \in DOMAIN operations'[op]
              /\ operations'[op][f] = operations[op][f]]_vars

\* a step in which an upload request is answered with 200
IngestStep == reply'.call = "upload" /\ reply'.statusCode = 200 /\ clock' # clock

\* C15: an upload request leaves every Operation record as it was, whatever
\* its status; it adds one File Record, of the operation in the path, with
\* fileType upload and status pending, and one blob under a key of that
\* operation, and changes no other File Record or blob
C15_IngestLeavesOperation ==
  [][IngestStep =>
       /\ operations' = operations
       /\ \E f \in DOMAIN csvFiles' \ DOMAIN csvFiles :
            /\ DOMAIN csvFiles' = DOMAIN csvFiles \cup {f}
            /\ \A g \in DOMAIN csvFiles : csvFiles'[g] = csvFiles[g]
            /\ csvFiles'[f].operationId = reply'.request.operationId
            /\ csvFiles'[f].fileType = "upload"
            /\ csvFiles'[f].status = "pending"
            /\ csvFiles'[f].s3Key[1] = reply'.request.operationId
            /\ DOMAIN blobs' = DOMAIN blobs \cup {csvFiles'[f].s3Key}
            /\ csvFiles'[f].s3Key \notin DOMAIN blobs
            /\ \A k \in DOMAIN blobs : blobs'[k] = blobs[k]]_vars

\* C15 witness: the latest request was an upload for an operation that a
\* process run had taken to completed or failed, and its File Record is the
\* newest one
C15_Witness ==
  /\ reply.call = "upload"
  /\ reply.statusCode = 200
  /\ reply.request.operationId \in DOMAIN operations
  /\ operations[reply.request.operationId].status \in TerminalStatuses
  /\ \E f \in DOMAIN csvFiles :
       /\ csvFiles[f].status = "pending"
       /\ csvFiles[f].uploadedAt = clock
       /\ \A r \in RunIds :
            runs[r].pc \in {"idle", "done"} /\ runs[r].fileId < f

\* ------------------------------------------- one process run (SpecRun)
\* the run of SpecRun, the operation it works on and the body it downloads
TheRun == runs[1]
TheOperation == operations[1]
TheBody == blobs[S3Key(1, "upload", 1)]

\* the run has made its final write to the Operation record
RunEnded ==
  TheRun.pc = "file" \/ (TheRun.pc = "done" /\ TheRun.response.statusCode = 200)

\* the run is past the grouping loop
RunGrouped == TheRun.pc \notin {"idle", "mark"} /\ TheRun.writes # <<>>

\* a well-formed http/https URL
WellFormedHttpUrl(url) == \E u \in HttpUrls : url = <<u>>

\* catalog calls whose failure is a per-product error
PerProductCalls == {"getProduct", "uploadImage", "updateVariantImage"}

CallsWhere(Test(_)) == SelectSeq(TheRun.calls, Test)

FailedCalls == CallsWhere(LAMBDA c : c.fn \in PerProductCalls /\ ~c.ok)

UploadsOf(productId) ==
  CallsWhere(LAMBDA c : c.fn = "uploadImage" /\ c.productId = productId)

OkUploadsOf(productId) ==
  CallsWhere(LAMBDA c : c.fn = "uploadImage" /\ c.productId = productId /\ c.ok)

DeletesOf(productId) ==
  CallsWhere(LAMBDA c : c.fn = "deleteImage" /\ c.productId = productId)

\* indexes of the decoded rows whose non-empty URL is not well formed
InvalidRows ==
  {k \in 1..Len(TheRun.csvData) :
     /\ TheRun.csvData[k].new_image_url # <<>>
     /\ ~WellFormedHttpUrl(TheRun.csvData[k].new_image_url)}

\* the distinct well-formed URLs among the rows of a product
ValidUrlsOf(productId) ==
  {TheRun.csvData[k].new_image_url :
     k \in {j \in 1..Len(TheRun.csvData) :
              /\ TheRun.csvData[j].product_id = productId
              /\ WellFormedHttpUrl(TheRun.csvData[j].new_image_url)}}

ProductsOfBody == {TheRun.csvData[k].product_id : k \in 1..Len(TheRun.csvData)}

\* the distinct (product, well-formed URL) pairs of the body
ValidPairs ==
  {<<TheRun.csvData[k].product_id, TheRun.csvData[k].new_image_url>> :
     k \in {j \in 1..Len(TheRun.csvData) :
              WellFormedHttpUrl(TheRun.csvData[j].new_image_url)}}

\* product groups with a failing per-product call
FailingGroups ==
  {g \in 1..Len(TheRun.productGroups) :
     \E k \in 1..Len(FailedCalls) :
       FailedCalls[k].productId = TheRun.productGroups[g].productId}

\* rows of a group that are the first of the group with their URL
AcceptedRows(g) ==
  LET rows == TheRun.productGroups[g].rows
  IN {k \in 1..Len(rows) :
        \A j \in 1..(k - 1) : rows[j].new_image_url # rows[k].new_image_url}

\* the distinct non-empty current_image_id of the accepted rows of a group
StaleImages(g) ==
  {TheRun.productGroups[g].rows[k].current_image_id : k \in AcceptedRows(g)}
    \ {<<>>}

RECURSIVE AcceptedInGroups(_, _)
\* number of accepted rows in the groups 1..n other than group f
AcceptedInGroups(n, f) ==
  IF n = 0 THEN 0
  ELSE (IF n = f THEN 0 ELSE Cardinality(AcceptedRows(n)))
       + AcceptedInGroups(n - 1, f)

\* entries of the error list of the form `Failed to update product <id>: ...`
FailedEntries ==
  SelectSeq(TheRun.errors, LAMBDA e : e[1] = "Failed to update product ")

\* what C4 says of a run in which exactly one group f has a failing call,
\* apart from the imagesUpdated count
IsolationOf(f) ==
  /\ \A g \in 1..Len(TheRun.productGroups) :
       g # f =>
         /\ Len(OkUploadsOf(TheRun.productGroups[g].productId))
              = Cardinality(AcceptedRows(g))
         /\ Len(DeletesOf(TheRun.productGroups[g].productId))
              = Cardinality(StaleImages(g))
  /\ Len(FailedEntries) = 1
  /\ SubSeq(FailedEntries[1], 2, 3) = TheRun.productGroups[f].productId \o <<": ">>
  /\ TheOperation.status = "failed"

ImagesOfOtherGroups(f) == AcceptedInGroups(Len(TheRun.productGroups), f)

\* rows of group f whose upload and re-pointing both succeeded
CompletedRowsOf(f) ==
  Len(OkUploadsOf(TheRun.productGroups[f].productId))
  - Len(CallsWhere(LAMBDA c : /\ c.fn = "updateVariantImage"
                              /\ c.productId = TheRun.productGroups[f].productId
                              /\ ~c.ok))

\* C4 as stated: with a failing call in exactly one group, every other group
\* is processed in full, the error list has exactly one `Failed to update
\* product` entry and it names the failing product, the status is failed and
\* imagesUpdated is the number of images of the other groups
C4_IsolationCountsSuccessfulGroups ==
  (RunEnded /\ Cardinality(FailingGroups) = 1) =>
     \A f \in FailingGroups :
        /\ IsolationOf(f)
        /\ TheOperation.imagesUpdated = ImagesOfOtherGroups(f)

\* C4 amended: as C4, but imagesUpdated also counts the rows of the failing
\* group that were completed before its failing call
C4_IsolationCountsCompletedRows ==
  (RunEnded /\ Cardinality(FailingGroups) = 1) =>
     \A f \in FailingGroups :
        /\ IsolationOf(f)
        /\ TheOperation.imagesUpdated = ImagesOfOtherGroups(f) + CompletedRowsOf(f)

\* C4 witness: three groups, the second one failed after completing nothing,
\* the first and the third were processed
C4_Witness ==
  /\ RunEnded
  /\ Len(TheRun.productGroups) = 3
  /\ FailingGroups = {2}
  /\ TheOperation.imagesUpdated = 2

\* C5 as stated: the final status is failed iff a per-product call failed
C5_FailedIffPerProductError ==
  RunEnded =>
     TheOperation.status = (IF FailedCalls # <<>> THEN "failed" ELSE "completed")

\* C5 amended: the final status is failed iff a per-product call failed or a
\* row had an invalid URL, and completed otherwise
C5_FailedIffAnyError ==
  RunEnded =>
     TheOperation.status =
       (IF FailedCalls # <<>> \/ InvalidRows # {} THEN "failed" ELSE "completed")

\* C5 witness: a run without per-product error that ends failed
C5_Witness ==
  /\ RunEnded
  /\ FailedCalls = <<>>
  /\ Len(TheRun.calls) > 0
  /\ TheOperation.status = "failed"

\* C6: the final write stores completed when the error list is empty and
\* failed otherwise, the run's imagesUpdated, and an errorMessage that is the
\* error list joined with "; " (no errorMessage when the list is empty)
C6_FinalWrite ==
  RunEnded =>
     /\ TheOperation.status =
          (IF TheRun.errors = <<>> THEN "completed" ELSE "failed")
     /\ TheOperation.imagesUpdated = TheRun.imagesUpdated
     /\ IF TheRun.errors = <<>>
        THEN "errorMessage" \notin DOMAIN TheOperation
        ELSE /\ "errorMessage" \in DOMAIN TheOperation
             /\ Split(TheOperation.errorMessage, "; ") = TheRun.errors

\* C6 witness: a final write with two errors and one counted image
C6_Witness ==
  /\ RunEnded
  /\ Len(TheRun.errors) = 2
  /\ TheOperation.imagesUpdated = 1
  /\ "errorMessage" \in DOMAIN TheOperation

\* C7: no (product, URL) pair is uploaded twice; in a run without failing
\* call each product gets as many uploadImage calls as it has distinct valid
\* URLs, imagesUpdated counts the distinct pairs, and the error list holds
\* nothing but the invalid-URL entries
C7_DedupByUrl ==
  /\ \A j, k \in 1..Len(TheRun.calls) :
       (/\ j < k
        /\ TheRun.calls[j].fn = "uploadImage"
        /\ TheRun.calls[k].fn = "uploadImage"
        /\ TheRun.calls[j].productId = TheRun.calls[k].productId)
         => TheRun.calls[j].arg # TheRun.calls[k].arg
  /\ (RunEnded /\ FailedCalls = <<>>) =>
        /\ \A productId \in ProductsOfBody :
             Len(UploadsOf(productId)) = Cardinality(ValidUrlsOf(productId))
        /\ TheOperation.imagesUpdated = Cardinality(ValidPairs)
        /\ Len(TheRun.errors) = Cardinality(InvalidRows)

\* C7 witness: a finished run without failing call over a body in which two
\* rows of one product carry the same valid URL
C7_Witness ==
  /\ RunEnded
  /\ FailedCalls = <<>>
  /\ \E j, k \in 1..Len(TheRun.csvData) :
       /\ j < k
       /\ TheRun.csvData[j].product_id = TheRun.csvData[k].product_id
       /\ TheRun.csvData[j].new_image_url = TheRun.csvData[k].new_image_url
       /\ WellFormedHttpUrl(TheRun.csvData[j].new_image_url)

\* the group of a product
GroupOf(productId) ==
  CHOOSE g \in 1..Len(TheRun.productGroups) :
    TheRun.productGroups[g].productId = productId

\* C8: a deleteImage call of a product comes after every uploadImage call of
\* that product, when all accepted rows of its group have been uploaded; a
\* group that went through its rows without failing call gets exactly one
\* deleteImage call per distinct non-empty current_image_id of its accepted rows
C8_StaleImageDeletion ==
  /\ \A k \in 1..Len(TheRun.calls) :
       TheRun.calls[k].fn = "deleteImage" =>
         /\ \A j \in 1..Len(TheRun.calls) :
              (/\ TheRun.calls[j].fn = "uploadImage"
               /\ TheRun.calls[j].productId = TheRun.calls[k].productId) => j < k
         /\ Len(OkUploadsOf(TheRun.calls[k].productId))
              = Cardinality(AcceptedRows(GroupOf(TheRun.calls[k].productId)))
  /\ RunEnded =>
       \A g \in (1..Len(TheRun.productGroups)) \ FailingGroups :
         LET deletes == DeletesOf(TheRun.productGroups[g].productId)
         IN /\ Len(deletes) = Cardinality(StaleImages(g))
            /\ {deletes[k].arg : k \in 1..Len(deletes)} = StaleImages(g)

\* C8 witness: two accepted rows of one group named the same image and the
\* group got a single deleteImage call, after its two uploads
C8_Witness ==
  /\ RunEnded
  /\ \E g \in 1..Len(TheRun.productGroups) :
       LET rows == TheRun.productGroups[g].rows
       IN /\ \E j, k \in AcceptedRows(g) :
               /\ j < k
               /\ rows[j].current_image_id = rows[k].current_image_id
               /\ rows[j].current_image_id # <<>>
          /\ Len(OkUploadsOf(TheRun.productGroups[g].productId)) = 2
          /\ Len(DeletesOf(TheRun.productGroups[g].productId)) = 1

\* `Skipping product <id>: Invalid image URL "<url>"`
SkipEntry(id, url) ==
  <<"Skipping product ">> \o id \o <<": Invalid image URL ", "\"">> \o url \o <<"\"">>

\* C9: once the rows are grouped, the error list has one `Skipping product`
\* entry per row with an invalid URL; no invalid URL is ever passed to
\* uploadImage; imagesUpdated never exceeds the number of distinct valid
\* (product, URL) pairs; and a run without failing call uploads every valid pair
C9_InvalidUrlSkip ==
  /\ RunGrouped =>
       \A k \in InvalidRows :
         LET row == TheRun.csvData[k]
             entry == SkipEntry(row.product_id, row.new_image_url)
         IN Len(SelectSeq(TheRun.errors, LAMBDA e : e = entry))
              = Cardinality({j \in InvalidRows :
                   /\ TheRun.csvData[j].product_id = row.product_id
                   /\ TheRun.csvData[j].new_image_url = row.new_image_url})
  /\ \A k \in 1..Len(TheRun.calls) :
       TheRun.calls[k].fn = "uploadImage" => WellFormedHttpUrl(TheRun.calls[k].arg)
  /\ TheRun.imagesUpdated <= Cardinality(ValidPairs)
  /\ (RunEnded /\ FailedCalls = <<>>) =>
        \A pair \in ValidPairs :
          \E k \in 1..Len(TheRun.calls) :
            /\ TheRun.calls[k].fn = "uploadImage"
            /\ TheRun.calls[k].productId = pair[1]
            /\ TheRun.calls[k].arg = pair[2]

\* C9 witness: an invalid row stands before a valid row of another product,
\* and the valid row was uploaded
C9_Witness ==
  /\ RunEnded
  /\ \E j \in InvalidRows, k \in 1..Len(TheRun.csvData) :
       /\ j < k
       /\ TheRun.csvData[j].product_id # TheRun.csvData[k].product_id
       /\ Len(OkUploadsOf(TheRun.csvData[k].product_id)) > 0
  /\ TheOperation.imagesUpdated > 0

\* the scenario CSV, as text
ScenarioCSV ==
  <<"product_id", ",", "product_handle", ",", "current_image_id", ",",
    "collection_name", ",", "new_image_url", "\n",
    "p1", ",", "h1", ",", "img1", ",", "Coll", ",", "https://example.com/a.jpg", "\n",
    "p1", ",", "h1", ",", ",", "Coll", ",", "https://example.com/b.jpg", "\n",
    "p2", ",", "h2", ",", "img2", ",", "Coll", ",">>

\* the catalog calls the scenario expects, all successful
ScenarioCalls ==
  <<Call("getProduct", <<"p1">>, <<>>, <<>>, 0, TRUE),
    Call("uploadImage", <<"p1">>, UrlA, <<"new1">>, 1, TRUE),
    Call("updateVariantImage", <<"p1">>, <<"v1">>, <<"new1">>, 0, TRUE),
    Call("updateVariantImage", <<"p1">>, <<"v2">>, <<"new1">>, 0, TRUE),
    Call("uploadImage", <<"p1">>, UrlB, <<"new2">>, 2, TRUE),
    Call("deleteImage", <<"p1">>, <<"img1">>, <<>>, 0, TRUE)>>

\* C10: a run on the scenario CSV in which no per-product call fails issues,
\* in this order, getProduct for p1, the upload of a.jpg at position 1, the
\* re-pointing of the two variants that pointed at img1, the upload of b.jpg
\* at position 2 and one deleteImage for img1, issues nothing for p2, and
\* ends completed with imagesUpdated = 2
C10_Scenario ==
  (RunEnded /\ TheBody = ScenarioCSV /\ FailedCalls = <<>>) =>
     /\ [k \in 1..Len(TheRun.calls) |-> [TheRun.calls[k] EXCEPT !.ok = TRUE]]
          = ScenarioCalls
     /\ variantImage = [InitialVariantImage EXCEPT ![<<"v1">>] = <<"new1">>,
                                                   ![<<"v2">>] = <<"new1">>]
     /\ TheOperation.imagesUpdated = 2
     /\ TheOperation.status = "completed"

\* C10 witness: the end of such a run on the scenario CSV
C10_Witness ==
  /\ RunEnded
  /\ TheBody = ScenarioCSV
  /\ FailedCalls = <<>>
  /\ TheRun.pc = "done"

\* C13: a process call on an upload with at least one non-blank line ends
\* with a 200 response whose body carries imagesUpdated and the error list,
\* one entry per invalid-URL row and one per product group with a failing
\* catalog call; on an upload without a non-blank line the call fails with
\* `CSV file is empty` before it writes anything
C13_StructuredResult ==
  TheRun.pc = "done" =>
    IF Len(NonBlankLines(TheBody)) = 0
    THEN /\ TheRun.response = ErrorResponse("CSV file is empty")
         /\ TheRun.writes = <<>>
    ELSE /\ TheRun.response.statusCode = 200
         /\ TheRun.response.body.success
         /\ TheRun.response.body.imagesUpdated = TheRun.imagesUpdated
         /\ Len(TheRun.errors) = Cardinality(InvalidRows) + Cardinality(FailingGroups)
         /\ IF TheRun.errors = <<>>
            THEN "errors" \notin DOMAIN TheRun.response.body
            ELSE TheRun.response.body.errors = TheRun.errors

\* C13 witness: a call that answered 200 with one counted image, one
\* invalid-URL entry and one failed-product entry
C13_Witness ==
  /\ TheRun.pc = "done"
  /\ TheRun.response.statusCode = 200
  /\ TheRun.response.body.imagesUpdated = 1
  /\ Cardinality(InvalidRows) = 1
  /\ Cardinality(FailingGroups) = 1
  /\ Len(TheRun.response.body.errors) = 2

\* C16: when a process call has answered 200, the upload File Record it
\* took as latest file has status processed, be the Operation completed or
\* failed; until the final write of the run that record stays pending
C16_FileMarkedProcessed ==
  /\ (TheRun.pc = "done" /\ TheRun.response.statusCode = 200) =>
        /\ TheRun.fileId = 2
        /\ csvFiles[TheRun.fileId].status = "processed"
        /\ TheOperation.status \in TerminalStatuses
  /\ TheRun.pc \notin {"done"} => csvFiles[2].status = "pending"

\* C16 witness: a finished run that left the Operation failed and the File
\* Record processed
C16_Witness ==
  /\ TheRun.pc = "done"
  /\ TheOperation.status = "failed"
  /\ csvFiles[TheRun.fileId].status = "processed"

\* the k-th accepted row of a group, in row order
KthAccepted(g, k) ==
  CHOOSE j \in AcceptedRows(g) :
    Cardinality({i \in AcceptedRows(g) : i <= j}) = k

\* C18: the k-th uploadImage call of a product group carries the URL of the
\* group's k-th accepted row and position k; a group that went through its
\* rows without failing call got one upload per accepted row
C18_PlacementPositions ==
  \A g \in 1..Len(TheRun.productGroups) :
    LET uploads == UploadsOf(TheRun.productGroups[g].productId)
    IN /\ Len(uploads) <= Cardinality(AcceptedRows(g))
       /\ \A k \in 1..Len(uploads) :
            /\ uploads[k].arg =
                 TheRun.productGroups[g].rows[KthAccepted(g, k)].new_image_url
            /\ uploads[k].position = k
       /\ (RunEnded /\ g \notin FailingGroups)
            => Len(uploads) = Cardinality(AcceptedRows(g))

\* the updateVariantImage calls issued for a product
RepointsOf(productId) ==
  CallsWhere(LAMBDA c : c.fn = "updateVariantImage" /\ c.productId = productId)

\* the variants of a product that point at an image before the run, in the
\* order getProduct returns them
VariantsPointingAt(productId, imageId) ==
  SelectSeq(VariantsOf(productId), LAMBDA v : InitialVariantImage[v] = imageId)

\* C19: updateVariantImage is called only between the first and the second
\* uploadImage call of a product group, only when the first row of the group
\* has a non-empty current_image_id, for the variants of the product that
\* pointed at that image, in their order and with the image the first upload
\* created; a group without failing call has re-pointed all of them
C19_RepointFirstRowOnly ==
  /\ \A k \in 1..Len(TheRun.calls) :
       TheRun.calls[k].fn = "updateVariantImage" =>
         Cardinality({j \in 1..(k - 1) :
                        /\ TheRun.calls[j].fn = "uploadImage"
                        /\ TheRun.calls[j].productId = TheRun.calls[k].productId}) = 1
  /\ \A g \in 1..Len(TheRun.productGroups) :
       LET productId == TheRun.productGroups[g].productId
           first == TheRun.productGroups[g].rows[1]
           repoints == RepointsOf(productId)
           expected == VariantsPointingAt(productId, first.current_image_id)
       IN /\ first.current_image_id = <<>> => repoints = <<>>
          /\ Len(repoints) <= Len(expected)
          /\ \A k \in 1..Len(repoints) :
               /\ repoints[k].arg = expected[k]
               /\ repoints[k].image = OkUploadsOf(productId)[1].image
               /\ OkUploadsOf(productId)[1].arg = first.new_image_url
               /\ repoints[k].ok =>
                    variantImage[expected[k]] = OkUploadsOf(productId)[1].image
          /\ (RunEnded /\ g \notin FailingGroups /\ first.current_image_id # <<>>)
               => Len(repoints) = Len(expected)

\* C19 witness: a finished run without failing call in which the second row
\* of the first group named an image two variants pointed at and got no
\* re-pointing, while the first row of the second group got its variant
\* re-pointed
C19_Witness ==
  /\ RunEnded
  /\ FailedCalls = <<>>
  /\ Len(TheRun.productGroups) = 2
  /\ TheRun.productGroups[1].rows[1].current_image_id = <<>>
  /\ Len(TheRun.productGroups[1].rows) = 2
  /\ TheRun.productGroups[1].rows[2].current_image_id = <<"img1">>
  /\ Len(OkUploadsOf(TheRun.productGroups[1].productId)) = 2
  /\ RepointsOf(TheRun.productGroups[1].productId) = <<>>
  /\ Len(RepointsOf(TheRun.productGroups[2].productId)) = 1

\* the step appends a failed deleteImage call to the calls of the run
DeleteFailsStep ==
  /\ Len(runs'[1].calls) = Len(TheRun.calls) + 1
  /\ runs'[1].calls[Len(runs'[1].calls)].fn = "deleteImage"
  /\ ~runs'[1].calls[Len(runs'[1].calls)].ok

\* C20: a failing deleteImage call leaves the error list and imagesUpdated as
\* they are and is followed by the next delete of the product or, after the
\* last one, by the next product group; at the end of the run the status is
\* failed only for invalid URLs or failed getProduct / uploadImage /
\* updateVariantImage calls, and imagesUpdated counts the rows whose upload
\* and re-pointing succeeded
C20_CleanupFailuresNonFatal ==
  /\ [][DeleteFailsStep =>
          /\ runs'[1].errors = TheRun.errors
          /\ runs'[1].imagesUpdated = TheRun.imagesUpdated
          /\ IF TheRun.d < Len(TheRun.imagesToDelete)
             THEN /\ runs'[1].pc = "delete"
                  /\ runs'[1].g = TheRun.g
                  /\ runs'[1].d = TheRun.d + 1
                  /\ runs'[1].imagesToDelete = TheRun.imagesToDelete
             ELSE /\ runs'[1].g = TheRun.g + 1
                  /\ runs'[1].pc =
                       (IF TheRun.g < Len(TheRun.productGroups)
                        THEN "getProduct" ELSE "final")]_vars
  /\ [](RunEnded =>
          /\ TheOperation.status =
               (IF FailedCalls = <<>> /\ InvalidRows = {}
                THEN "completed" ELSE "failed")
          /\ TheOperation.imagesUpdated =
               OkUploads(TheRun.calls)
               - Len(CallsWhere(LAMBDA c : c.fn = "updateVariantImage" /\ ~c.ok)))

\* C20 witness: a run that ended completed although a deleteImage call of
\* its first group failed; that group got its second delete and the second
\* group was processed afterwards
C20_Witness ==
  /\ RunEnded
  /\ TheOperation.status = "completed"
  /\ TheOperation.imagesUpdated = 3
  /\ \E j, k, m \in 1..Len(TheRun.calls) :
       /\ j < k /\ k < m
       /\ TheRun.calls[j].fn = "deleteImage" /\ ~TheRun.calls[j].ok
       /\ TheRun.calls[k].fn = "deleteImage"
       /\ TheRun.calls[k].productId = TheRun.calls[j].productId
       /\ TheRun.calls[m].fn = "uploadImage" /\ TheRun.calls[m].ok
       /\ TheRun.calls[m].productId # TheRun.calls[j].productId

\* lists of rows without a comma in any field
CommaFreeRowLists == RowLists(MaxRows) \cup {<<QuotedTitleRow>>}

\* C12: when the downloaded text is what the encoder produces for a list of
\* rows without commas in their fields, the rows the process branch decodes
\* from it are that list
C12_CsvRoundTrip ==
  TheRun.pc = "mark" =>
    \A rows \in CommaFreeRowLists :
      TheBody = EncodeCSV(rows) => TheRun.csvData = rows

\* ------------------------------------------- create requests (SpecCreate)
\* the latest request was a create request that got a 200 response
Created == reply.call = "create" /\ reply.statusCode = 200

\* the operation id in the response of the latest create request
CreatedId == reply.body.operation.operationId

\* the template File Records of an operation
TemplateFilesOf(op) ==
  {f \in DOMAIN csvFiles :
     csvFiles[f].operationId = op /\ csvFiles[f].fileType = "template"}

\* the data lines of the template stored for an operation, each as its list
\* of comma-separated fields
TemplateLinesOf(op) ==
  LET f == CHOOSE f \in TemplateFilesOf(op) : TRUE
      lines == Split(blobs[csvFiles[f].s3Key], "\n")
  IN [k \in 1..(Len(lines) - 1) |-> Split(lines[k + 1], ",")]

\* the products of the collection that a request selects
SelectedProducts(product_ids) ==
  {k \in 1..Len(CatalogProducts) : CatalogProducts[k].id \in product_ids}

\* C11: the template of a created operation has, for each selected product
\* with at least one image, exactly 5 consecutive rows: one with the product's
\* first image id, then four with empty current_image_id, all with empty
\* new_image_url; it has no row for any other product, hence 5*N rows
C11_TemplateRowCount ==
  Created =>
    LET rows == TemplateLinesOf(CreatedId)
        withImages == {k \in SelectedProducts(reply.request.product_ids) :
                         Len(CatalogProducts[k].images) > 0}
        RowsOf(id) == {j \in 1..Len(rows) : rows[j][1] = id}
    IN /\ Len(rows) = 5 * Cardinality(withImages)
       /\ \A j \in 1..Len(rows) : Len(rows[j]) = 5 /\ rows[j][5] = <<>>
       /\ \A k \in 1..Len(CatalogProducts) :
            LET product == CatalogProducts[k]
            IN IF k \in withImages
               THEN \E j \in 1..Len(rows) :
                      /\ RowsOf(product.id) = j..(j + 4)
                      /\ rows[j][3] = product.images[1]
                      /\ \A i \in (j + 1)..(j + 4) : rows[i][3] = <<>>
               ELSE RowsOf(product.id) = {}

\* C11 witness: a create request that selected p1 (two images), p2 (one
\* image), p3 (no image) and p4 (not in the collection) and got 10 rows
C11_Witness ==
  /\ Created
  /\ reply.request.product_ids = {<<"p1">>, <<"p2">>, <<"p3">>, <<"p4">>}
  /\ Len(TemplateLinesOf(CreatedId)) = 10

\* C17: after a successful create request the stores hold one template File
\* Record of the new operation, with status pending, and an Operation record
\* with status pending, imagesUpdated 0 and productsCount equal to the number
\* of rows of the stored template; the response carries that Operation record
C17_CreatePersists ==
  Created =>
    /\ CreatedId = opsCreated
    /\ Cardinality(TemplateFilesOf(CreatedId)) = 1
    /\ \A f \in TemplateFilesOf(CreatedId) :
         /\ csvFiles[f].status = "pending"
         /\ csvFiles[f].recordCount = Len(TemplateLinesOf(CreatedId))
         /\ csvFiles[f].s3Key \in DOMAIN blobs
    /\ CreatedId \in DOMAIN operations
    /\ operations[CreatedId].status = "pending"
    /\ operations[CreatedId].imagesUpdated = 0
    /\ operations[CreatedId].productsCount = Len(TemplateLinesOf(CreatedId))
    /\ reply.body.operation = operations[CreatedId]

\* C17 witness: the second operation of a behaviour, created with one product
\* and five template rows
C17_Witness ==
  /\ Created
  /\ CreatedId = 2
  /\ operations[2].productsCount = 5
  /\ reply.body.operation = operations[2]

\* ------------------------------------------- request validation (SpecApi)
\* the messages of the input validation errors
ValidationErrors ==
  {"collection_id and product_ids array are required", "No file uploaded",
   "Could not find multipart boundary", "No CSV file found in upload",
   "No uploaded CSV found for this operation", "CSV file is empty"}

\* C14: a create request without collection id or product id array fails; a
\* create or upload request that fails, and a process call that fails, fails
\* with one of the input validation errors and leaves the blob store, the
\* File Records and the Operation records exactly as they were
C14_ValidationErrorsWriteNothing ==
  [][/\ (/\ reply' # reply
          /\ reply'.call = "create"
          /\ (reply'.request.collection_id = <<>> \/ ~reply'.request.isArray))
         => reply'.statusCode = 500
     /\ (reply' # reply /\ reply'.statusCode = 500)
         => /\ reply'.body.error \in ValidationErrors
            /\ blobs' = blobs /\ csvFiles' = csvFiles /\ operations' = operations
     /\ \A r \in RunIds :
          (runs'[r].response # runs[r].response /\ runs'[r].response.statusCode = 500)
            => /\ runs'[r].response.body.error \in ValidationErrors
               /\ runs'[r].writes = <<>>
               /\ blobs' = blobs /\ csvFiles' = csvFiles /\ operations' = operations]_vars

\* C14 witness: with an operation and an upload in the stores, a process call
\* has failed on an empty CSV and the latest upload request has failed for
\* want of a CSV part
C14_Witness ==
  /\ opsCreated = 1
  /\ \E r \in RunIds : runs[r].response = ErrorResponse("CSV file is empty")
  /\ reply.call = "upload"
  /\ reply.statusCode = 500
  /\ reply.body.error = "No CSV file found in upload"

\* ------------------------ one process run (SpecRun, SpecLive), continued
\* the upload File Record as ingestUpload wrote it
UploadRecordAsIngested ==
  FileRecord(2, 1, "upload", S3Key(1, "upload", 1), TheBody, RecordCount(TheBody), 1)

\* the fields of a File Record a process run is not said to change
FrameFields ==
  {"operationId", "fileType", "fileName", "s3Key", "recordCount", "uploadedAt",
   "checksum"}

\* C22: after a process run the upload File Record has status processed and
\* the same operationId, fileType, fileName, s3Key, recordCount, uploadedAt
\* and checksum as when ingestUpload wrote it
C22_FileRecordFrame ==
  (TheRun.pc = "done" /\ TheRun.response.statusCode = 200) =>
     /\ csvFiles[2].status = "processed"
     /\ \A f \in FrameFields :
          /\ f \in DOMAIN csvFiles[2]
          /\ csvFiles[2][f] = UploadRecordAsIngested[f]

\* C21: after a failing getProduct, uploadImage or updateVariantImage call for
\* a product the run issues no further catalog call for that product, no
\* image uploaded for it in the run is deleted, and the next call, if any, is
\* the getProduct of the next product group; after the failure in the last
\* group the run goes to its final write
C21_GroupAbandoned ==
  \A j \in 1..Len(TheRun.calls) :
    (TheRun.calls[j].fn \in PerProductCalls /\ ~TheRun.calls[j].ok) =>
      LET productId == TheRun.calls[j].productId
          g == GroupOf(productId)
      IN /\ \A k \in (j + 1)..Len(TheRun.calls) :
              TheRun.calls[k].productId # productId
         /\ \A u \in 1..j, k \in 1..Len(TheRun.calls) :
              (TheRun.calls[u].fn = "uploadImage" /\ TheRun.calls[u].ok
                 /\ TheRun.calls[u].productId = productId)
                => ~(TheRun.calls[k].fn = "deleteImage"
                       /\ TheRun.calls[k].arg = TheRun.calls[u].image)
         /\ IF j < Len(TheRun.calls)
            THEN /\ g < Len(TheRun.productGroups)
                 /\ TheRun.calls[j + 1].fn = "getProduct"
                 /\ TheRun.calls[j + 1].productId = TheRun.productGroups[g + 1].productId
            ELSE IF g < Len(TheRun.productGroups)
                 THEN TheRun.pc = "getProduct" /\ TheRun.g = g + 1
                 ELSE TheRun.pc \in {"final", "file", "done"}

\* C21 witness: a finished run in which a product had an image uploaded,
\* then failed at updateVariantImage, and an image was uploaded for a later
\* product afterwards
C21_Witness ==
  /\ RunEnded
  /\ \E u, j, m \in 1..Len(TheRun.calls) :
       /\ u < j /\ j < m
       /\ TheRun.calls[u].fn = "uploadImage" /\ TheRun.calls[u].ok
       /\ TheRun.calls[j].fn = "updateVariantImage" /\ ~TheRun.calls[j].ok
       /\ TheRun.calls[j].productId = TheRun.calls[u].productId
       /\ TheRun.calls[m].fn = "uploadImage" /\ TheRun.calls[m].ok
       /\ TheRun.calls[m].productId # TheRun.calls[j].productId

\* C23: the item of every write a process run makes to the Operation record
\* names status and imagesUpdated, and errorMessage whenever the run has an
\* error to report; the stored item is the written one, so after a write
\* of the run the record holds these fields
C23_WritesSupplyOwnedFields ==
  TheRun.writes # <<>> =>
    /\ {"status", "imagesUpdated"} \subseteq DOMAIN TheOperation
    /\ (RunEnded /\ TheRun.errors # <<>>) => "errorMessage" \in DOMAIN TheOperation

\* ------------------------------------------------ lifecycle (Spec), continued
\* C24: nothing a process run does depends on another run of the same
\* operation: its `processing` write and its final write replace the
\* Operation record with its own values whatever the record held and whoever
\* else is running, and two runs that selected the same upload file work on
\* the same decoded rows
C24_NoMutualExclusion ==
  /\ [][\A r \in RunIds :
          /\ (runs[r].pc = "mark" /\ runs'[r].pc # "mark") =>
                operations'[runs[r].operationId] =
                  [operationId |-> runs[r].operationId, status |-> "processing"]
          /\ (runs[r].pc = "final" /\ runs'[r].pc = "file") =>
                operations'[runs[r].operationId] =
                  FinalUpdates(runs[r].imagesUpdated, runs[r].errors)
                    @@ [operationId |-> runs[r].operationId]]_vars
  /\ [](\A r, q \in RunIds :
          (runs[r].fileId # 0 /\ runs[r].fileId = runs[q].fileId)
            => /\ runs[r].operationId = runs[q].operationId
               /\ runs[r].csvData = runs[q].csvData)

\* C24 witness: two process calls of one operation selected the same upload
\* file, both wrote processing and both uploaded the image of the same row;
\* the call that began later uploaded first and made its final write last,
\* after the earlier call had answered: the record shows the later call's
\* failed result, not the completed result of the earlier one
C24_Witness ==
  \E r, q \in RunIds :
    /\ r < q
    /\ runs[r].fileId # 0 /\ runs[r].fileId = runs[q].fileId
    /\ runs[r].operationId = runs[q].operationId
    /\ runs[r].pc = "done" /\ runs[r].writes = <<"processing", "completed">>
    /\ runs[q].pc = "file" /\ runs[q].writes = <<"processing", "failed">>
    /\ \E k \in 1..Len(runs[q].calls), m \in 1..Len(runs[r].calls) :
         /\ runs[q].calls[k].fn = "uploadImage" /\ runs[q].calls[k].ok
         /\ runs[q].calls[k].image = <<"new1">>
         /\ runs[r].calls[m].fn = "uploadImage" /\ runs[r].calls[m].ok
         /\ runs[r].calls[m].image = <<"new2">>
         /\ runs[r].calls[m].productId = runs[q].calls[k].productId
         /\ runs[r].calls[m].arg = runs[q].calls[k].arg
         /\ runs[r].calls[m].position = runs[q].calls[k].position
    /\ operations[runs[q].operationId].status = "failed"
    /\ operations[runs[q].operationId].imagesUpdated = 0

\* ------------------------ one process run (SpecRun, SpecLive), continued
\* updateVariantImage calls of the run that failed
FailedRepoints == CallsWhere(LAMBDA c : c.fn = "updateVariantImage" /\ ~c.ok)

\* C25 as stated: at the end of a run the persisted imagesUpdated is the
\* number of uploadImage calls of the run that succeeded
C25_CountsUploads ==
  RunEnded => TheOperation.imagesUpdated = OkUploads(TheRun.calls)

\* C25 amended: at the end of a run the persisted imagesUpdated is the number
\* of rows whose uploadImage call and whose updateVariantImage calls all
\* succeeded: the successful uploads less those followed by a failing
\* re-point; it is also the count the response reports
C25_CountsCompletedRows ==
  RunEnded =>
    /\ TheOperation.imagesUpdated = OkUploads(TheRun.calls) - Len(FailedRepoints)
    /\ TheOperation.imagesUpdated = TheRun.imagesUpdated
    /\ \A k \in 1..Len(TheRun.calls) :
         (TheRun.calls[k].fn = "updateVariantImage" /\ ~TheRun.calls[k].ok) =>
            \E u \in 1..(k - 1) :
              /\ TheRun.calls[u].fn = "uploadImage" /\ TheRun.calls[u].ok
              /\ TheRun.calls[u].image = TheRun.calls[k].image
              /\ \A j \in (u + 1)..(k - 1) : TheRun.calls[j].fn = "updateVariantImage"

\* C25 witness: a finished run with two images created in the catalog of
\* which one is counted, the other having failed at its re-point
C25_Witness ==
  /\ RunEnded
  /\ OkUploads(TheRun.calls) = 2
  /\ Len(FailedRepoints) = 1
  /\ TheOperation.imagesUpdated = 1

\* C26: when a run is about to call deleteImage for an image id of a
\* product, every variant of the product, as fetched at the start of the
\* group, whose image_id is that id has been re-pointed by a successful
\* updateVariantImage call of the run
C26_NoDeleteWhileReferenced ==
  TheRun.pc = "delete" =>
    \A v \in 1..Len(TheRun.variants) :
      TheRun.variants[v].image_id = TheRun.imagesToDelete[TheRun.d] =>
        \E k \in 1..Len(TheRun.calls) :
          /\ TheRun.calls[k].fn = "updateVariantImage" /\ TheRun.calls[k].ok
          /\ TheRun.calls[k].productId = TheRun.productGroups[TheRun.g].productId
          /\ TheRun.calls[k].arg = TheRun.variants[v].id

\* ------------------------------------------------ lifecycle (Spec), continued
\* the step is the entry of process call q, made while no other call is
\* running, after call r of the same operation answered 200 and with no
\* File Record written since r selected its file
RerunStep(r, q) ==
  /\ runs[q].pc = "idle" /\ runs'[q].pc # "idle"
  /\ \A x \in RunIds : runs[x].pc \in {"idle", "done"}
  /\ runs[r].pc = "done" /\ runs[r].response.statusCode = 200
  /\ runs'[q].operationId = runs[r].operationId
  /\ \A f \in DOMAIN csvFiles : f <= runs[r].fileId

\* C27: a process call made after a finished run of the same operation,
\* without an upload in between, finds no accepted row to work on (it fails
\* at entry or decodes a CSV without accepted row), so that it issues no
\* uploadImage, updateVariantImage or deleteImage call
C27_RerunIsHarmless ==
  [][\A r, q \in RunIds :
       RerunStep(r, q) =>
         \/ runs'[q].pc = "done"
         \/ GroupRows(runs'[q].csvData, <<>>) = <<>>]_vars

\* ------------------------------------- request validation (SpecApi), continued
\* C28: every Operation record in the record store has an id that
\* createOperation handed out; upload and process calls that name another id
\* bring no record into existence
C28_OperationsOnlyByCreate ==
  \A op \in DOMAIN operations : op \in 1..opsCreated

\* C29: every File Record in the record store names an operationId, and an
\* Operation record with that id is in the record store
C29_FileRecordsReferToOperations ==
  \A f \in DOMAIN csvFiles :
    /\ "operationId" \in DOMAIN csvFiles[f]
    /\ csvFiles[f].operationId \in DOMAIN operations

\* ------------------------ one process run that keeps running (SpecLive)
\* C30: a run that has written processing eventually makes its final write,
\* completed or failed, to the Operation record, whichever of its getProduct,
\* uploadImage, updateVariantImage and deleteImage calls fail
C30_ProcessingEnds ==
  (TheRun.writes = <<"processing">> /\ TheOperation.status = "processing")
    ~> (/\ Len(TheRun.writes) = 2
        /\ TheRun.writes[2] \in TerminalStatuses
        /\ TheOperation.status = TheRun.writes[2])

\* C30 witness: a run that made its final write after failing calls of three
\* kinds, a deleteImage among them
C30_Witness ==
  /\ RunEnded
  /\ TheRun.writes = <<"processing", "failed">>
  /\ \E j, k, m \in 1..Len(TheRun.calls) :
       /\ ~TheRun.calls[j].ok /\ ~TheRun.calls[k].ok /\ ~TheRun.calls[m].ok
       /\ TheRun.calls[j].fn = "deleteImage"
       /\ TheRun.calls[k].fn = "updateVariantImage"
       /\ TheRun.calls[m].fn \in {"getProduct", "uploadImage"}

====
